---- MODULE Spec2Model ----
(***************************************************************************)
(* bankshot: the workstation daemon's forward manager (pkg/forwarder,      *)
(* pkg/daemon) and the remote session supervisor (pkg/monitor), as state   *)
(* machines.  Every handler of the daemon runs in its own goroutine; a     *)
(* handler's steps are cut where the code releases the registry lock or    *)
(* waits for an ssh subprocess.                                            *)
(***************************************************************************)
EXTENDS Integers, Sequences, FiniteSets, TLC

\* ---------------------------------------------------------------- bounds
MaxGen == 1             \* reconnects per SSH connection
MaxTime == 3            \* clock ticks
MaxGrace == 2           \* largest configured grace period, in ticks
ChanCap == 1            \* capacity of the observer's event channel
MaxSock == 2            \* listening sockets per port on the remote host (tcp, tcp6)

\* ------------------------------------------------------------- input sets
Connections == {"vm1", "vm2"}
Session == "vm1"                        \* os.Hostname() of the remote host
Ports == {3000, 8080}
ReqHosts == {"", "localhost"}
\* (connection, remote port) pairs the clients ask for
Targets == {<<"vm1", 3000>>, <<"vm2", 3000>>}
StaticSockets == {"bankshot.sock", "agent.sock"}
Clients == {1, 2}                       \* RPC clients besides the supervisor
Maint == 3                              \* goroutine of the daemon's own sweeps
Handlers == {0, Maint} \cup Clients     \* handler 0 serves the supervisor's RPCs

VARIABLES
    forwards,       \* Forwarder.forwards: key -> Forward
    h,              \* one record per handler goroutine of the daemon
    alive,          \* connection -> is its ControlMaster running
    gen,            \* connection -> how often it has reconnected
    sshFwds,        \* connection -> local ports its ControlMaster listens on (-L)
    staticActive,   \* connection -> active socket remote-forwards of the ssh config
    now,            \* wall clock
    cfg,            \* SessionConfig of the supervisor
    activeForwards, \* SessionMonitor.activeForwards, as the set of its ports
    pendingRemovals,\* SessionMonitor.pendingRemovals: port -> time of the mark
    events,         \* the observer's event channel
    vmSockets,      \* remote host: port -> number of listening sockets
    s,              \* holder of SessionMonitor.mutex and its position
    cancelled,      \* the supervisor's context is cancelled
    lastOpened,     \* history: port -> time handlePortOpened last ran for it, -1 never
    issuedSince,    \* history: ports with a FORWARD sent since their last CLOSED
    okSince,        \* history: ports with a FORWARD answered ok since their last CLOSED
    socketReachable,\* Monitor.socketReachable: the last heartbeat probe succeeded
    m,              \* position of socketConnectivityLoop and its Reconcile
    bindAddr,       \* remote host: port -> address its listeners are bound to
    policyIn,       \* arguments of one call of the forwarding policy
    policyOut,      \* what that call returned
    sockFile,       \* what is at the daemon's socket address
    run,            \* position of Daemon.Run and what its probe saw
    w,              \* the wrap command: its goroutines, its child and its observer
    o,              \* the supervisor's observer: its backend and the position of its Start
    sysmon          \* the polling observer: its maps, its two loops and its channel's end

envVars == <<alive, gen, sshFwds, staticActive>>
mVars == <<socketReachable, m, bindAddr, policyIn, policyOut, sockFile, run, w, o, sysmon>>
sVars == <<cfg, activeForwards, pendingRemovals, events, vmSockets, s, cancelled,
           lastOpened, issuedSince, okSince, mVars>>
vars == <<forwards, h, alive, gen, sshFwds, staticActive, now, sVars>>

\* ------------------------------------------------------ forwarder helpers
\* A key that leaves the connection out.
KeyHostPort(connectionInfo, host, remotePort) == host \o ":" \o ToString(remotePort)

\* fmt.Sprintf("%s:%s:%d", connectionInfo, host, remotePort)
Key(connectionInfo, host, remotePort) ==
    connectionInfo \o ":" \o host \o ":" \o ToString(remotePort)

NormHost(host) == IF host = "" THEN "localhost" ELSE host

NormLocalPort(localPort, remotePort) == IF localPort = 0 THEN remotePort ELSE localPort

\* The ControlPath of a connection; a reconnect rewrites it.
SocketPathOf(c, g) == "/tmp/ssh_mux_" \o c \o "_" \o ToString(g)

\* ssh -O check, ssh -G, stat: the live control socket, "" with an error.
FindControlSocket(c) == IF alive[c] THEN SocketPathOf(c, gen[c]) ELSE ""

\* monitor.GetListeningPorts() on the workstation, as the set of port numbers.
Listening(lp) == \E c \in Connections : alive[c] /\ lp \in sshFwds[c]

Ident(f) == <<f.ConnectionInfo, f.Host, f.RemotePort>>

Drop(keys) == [k \in DOMAIN forwards \ keys |-> forwards[k]]

Put(key, f) == [k \in DOMAIN forwards \cup {key} |-> IF k = key THEN f ELSE forwards[k]]

\* ------------------------------------------------------------ handlers
IdleH == [pc |-> "idle", op |-> "none", conn |-> "", host |-> "", rport |-> 0,
          lport |-> 0, sock |-> "", key |-> "", ret |-> "done",
          work |-> {}, cur |-> {}, toRemove |-> {}, cancelOk |-> FALSE,
          staticBefore |-> {}, staleForwards |-> {},
          ok |-> FALSE, err |-> ""]

Set(i, rec) == h' = [h EXCEPT ![i] = rec]

Free(i) == h[i].pc \in {"idle", "done"}

\* The accept loop starts one goroutine per connection: a request of a client
\* takes the first free handler.
Accepts(i) == i \in Clients /\ Free(i) /\ \A j \in Clients : j < i => ~Free(j)

\* The handler has written its response: the locals are gone.
Resp(r, ok, err) ==
    [IdleH EXCEPT !.pc = "done", !.op = r.op, !.conn = r.conn, !.key = r.key,
                  !.cancelOk = r.cancelOk, !.ok = ok, !.err = err]

\* The return of an operation that answers no RPC.
Finish(r) == [IdleH EXCEPT !.pc = "done", !.op = r.op]

\* A handler that takes the ControlPath from the ssh configuration without
\* looking whether a master listens on it.
ForwardArrivesFromConfig(c, host, rp, lp, sock) ==
    LET sp == IF sock = "" THEN SocketPathOf(c, gen[c]) ELSE sock
        r == [IdleH EXCEPT !.op = "FORWARD", !.conn = c, !.host = NormHost(host),
                           !.rport = rp, !.lport = NormLocalPort(lp, rp),
                           !.sock = sp, !.key = Key(c, NormHost(host), rp)]
    IN  [r EXCEPT !.pc = "add_check"]

\* Daemon.handleForwardCommand up to the call of AddForward: parse the payload,
\* resolve the control socket unless the request names one.  The handler's
\* record after it.
ForwardArrives(c, host, rp, lp, sock) ==
    LET sp == IF sock = "" THEN FindControlSocket(c) ELSE sock
        r == [IdleH EXCEPT !.op = "FORWARD", !.conn = c, !.host = NormHost(host),
                           !.rport = rp, !.lport = NormLocalPort(lp, rp),
                           !.sock = sp, !.key = Key(c, NormHost(host), rp)]
    IN  IF sp = ""
        THEN Resp(r, FALSE, "failed to find SSH socket")
        ELSE [r EXCEPT !.pc = "add_check"]

HandleForwardCommand(i, c, host, rp, lp, sock) ==
    /\ Free(i)
    /\ Set(i, ForwardArrives(c, host, rp, lp, sock))
    /\ UNCHANGED <<forwards, envVars, now, sVars>>

\* Forwarder.AddForward, the check under the read lock.
AddForwardCheck(i) ==
    /\ h[i].pc = "add_check"
    /\ IF h[i].key \in DOMAIN forwards
       THEN Set(i, Resp(h[i], TRUE, ""))
       ELSE Set(i, [h[i] EXCEPT !.pc = "add_exec"])
    /\ UNCHANGED <<forwards, envVars, now, sVars>>

\* ssh -O forward -L lport:host:rport conn can succeed when the master runs and
\* the local port is free or already forwarded by this master.
CanForward(c, lp) == alive[c] /\ (lp \in sshFwds[c] \/ ~Listening(lp))

\* An AddForward that stores the entry although its ssh command has failed.
AddForwardExecStoresAnyway(i) ==
    /\ h[i].pc = "add_exec"
    /\ \E okc \in (IF CanForward(h[i].conn, h[i].lport) THEN {TRUE, FALSE} ELSE {FALSE}) :
          IF okc
          THEN /\ sshFwds' = [sshFwds EXCEPT ![h[i].conn] = @ \cup {h[i].lport}]
               /\ Set(i, [h[i] EXCEPT !.pc = "add_store"])
               /\ UNCHANGED forwards
          ELSE /\ Set(i, Resp(h[i], FALSE, "failed to forward port"))
               /\ forwards' = Put(h[i].key, [RemotePort |-> h[i].rport,
                                   LocalPort |-> h[i].lport, Host |-> h[i].host,
                                   SocketPath |-> h[i].sock, ConnectionInfo |-> h[i].conn,
                                   CreatedAt |-> now])
               /\ UNCHANGED sshFwds
    /\ UNCHANGED <<alive, gen, staticActive, now, sVars>>

\* Forwarder.AddForward, the ssh command.
AddForwardExec(i) ==
    /\ h[i].pc = "add_exec"
    /\ \E okc \in (IF CanForward(h[i].conn, h[i].lport) THEN {TRUE, FALSE} ELSE {FALSE}) :
          IF okc
          THEN /\ sshFwds' = [sshFwds EXCEPT ![h[i].conn] = @ \cup {h[i].lport}]
               /\ Set(i, [h[i] EXCEPT !.pc = "add_store"])
          ELSE /\ Set(i, Resp(h[i], FALSE, "failed to forward port"))
               /\ UNCHANGED sshFwds
    /\ UNCHANGED <<forwards, alive, gen, staticActive, now, sVars>>

NewForward(r) ==
    [RemotePort |-> r.rport, LocalPort |-> r.lport, Host |-> r.host,
     SocketPath |-> r.sock, ConnectionInfo |-> r.conn, CreatedAt |-> now]

\* Forwarder.AddForward, the insert under the write lock.
AddForwardStore(i) ==
    /\ h[i].pc = "add_store"
    /\ forwards' = Put(h[i].key, NewForward(h[i]))
    /\ Set(i, Resp(h[i], TRUE, ""))
    /\ UNCHANGED <<envVars, now, sVars>>

\* After RemoveForward: the RPC answers, a cleanup goes on with its next item.
Return(r, ok, err) ==
    IF r.ret = "done" THEN Resp(r, ok, err)
    ELSE [r EXCEPT !.pc = r.ret, !.key = "", !.lport = 0, !.rport = 0, !.host = ""]

\* Daemon.handleUnforwardCommand: parse the payload, default the host.  The
\* handler's record after it.
UnforwardArrives(c, host, rp) ==
    [IdleH EXCEPT !.pc = "rm_lookup", !.op = "UNFORWARD", !.conn = c,
                  !.host = NormHost(host), !.rport = rp,
                  !.key = Key(c, NormHost(host), rp)]

HandleUnforwardCommand(i, c, host, rp) ==
    /\ Free(i)
    /\ Set(i, UnforwardArrives(c, host, rp))
    /\ UNCHANGED <<forwards, envVars, now, sVars>>

\* Daemon.handleCommand, the default branch: a request type without a case is
\* answered with an error and nothing else happens.
HandleUnknownCommand(i, type) ==
    /\ Free(i)
    /\ Set(i, Resp([IdleH EXCEPT !.op = type], FALSE, "unknown command type"))
    /\ UNCHANGED <<forwards, envVars, now, sVars>>

\* A lookup that goes on to the ssh commands whether or not the key is there.
RemoveForwardLookupAnyway(i) ==
    /\ h[i].pc = "rm_lookup"
    /\ Set(i, [h[i] EXCEPT !.pc = "rm_cancel",
                           !.lport = IF h[i].key \in DOMAIN forwards
                                     THEN forwards[h[i].key].LocalPort ELSE h[i].rport,
                           !.staticBefore = staticActive[h[i].conn]])
    /\ UNCHANGED <<forwards, envVars, now, sVars>>

\* Forwarder.RemoveForward, the lookup under the read lock.
RemoveForwardLookup(i) ==
    /\ h[i].pc = "rm_lookup"
    /\ IF h[i].key \notin DOMAIN forwards
       THEN Set(i, Return(h[i], FALSE, "forward not found: " \o h[i].key))
       ELSE Set(i, [h[i] EXCEPT !.pc = "rm_cancel",
                                !.lport = forwards[h[i].key].LocalPort,
                                !.staticBefore = staticActive[h[i].conn]])
    /\ UNCHANGED <<forwards, envVars, now, sVars>>

\* Forwarder.RemoveForward, ssh -O cancel -L lport:host:rport conn.  On a
\* running master the cancel also drops every socket remote-forward.
RemoveForwardCancel(i) ==
    /\ h[i].pc = "rm_cancel"
    /\ LET c == h[i].conn
       IN  /\ Set(i, [h[i] EXCEPT !.pc = "rm_delete",
                                  !.cancelOk = alive[c] /\ h[i].lport \in sshFwds[c]])
           /\ IF alive[c]
              THEN /\ sshFwds' = [sshFwds EXCEPT ![c] = @ \ {h[i].lport}]
                   /\ staticActive' = [staticActive EXCEPT ![c] = {}]
              ELSE UNCHANGED <<sshFwds, staticActive>>
    /\ UNCHANGED <<forwards, alive, gen, now, sVars>>

\* A delete that happens only after a successful cancel.
RemoveForwardDeleteIfCancelled(i) ==
    /\ h[i].pc = "rm_delete"
    /\ forwards' = IF h[i].cancelOk THEN Drop({h[i].key}) ELSE forwards
    /\ Set(i, [h[i] EXCEPT !.pc = "rm_reest"])
    /\ UNCHANGED <<envVars, now, sVars>>

\* Forwarder.RemoveForward, the delete under the write lock.
RemoveForwardDelete(i) ==
    /\ h[i].pc = "rm_delete"
    /\ forwards' = Drop({h[i].key})
    /\ Set(i, [h[i] EXCEPT !.pc = "rm_reest"])
    /\ UNCHANGED <<envVars, now, sVars>>

\* A RemoveForward that ends after the delete, without ssh -O forward conn.
RemoveForwardNoReestablish(i) ==
    /\ h[i].pc = "rm_reest"
    /\ Set(i, Return(h[i], TRUE, ""))
    /\ UNCHANGED <<forwards, envVars, now, sVars>>

\* Forwarder.RemoveForward, ssh -O forward conn: the master re-establishes the
\* remote-forwards of the ssh config; a failure is logged.
RemoveForwardReestablish(i) ==
    /\ h[i].pc = "rm_reest"
    /\ LET c == h[i].conn
       IN  IF alive[c]
           THEN staticActive' = [staticActive EXCEPT ![c] = StaticSockets]
           ELSE UNCHANGED staticActive
    /\ Set(i, Return(h[i], TRUE, ""))
    /\ UNCHANGED <<forwards, alive, gen, sshFwds, now, sVars>>

\* ------------------------------------------------------------ reconcile
\* Forwarder.Reconcile: the listening ports, then under the read lock copies
\* of the forwards whose local port does not listen.
ReconcileSnapshot(i) ==
    /\ Free(i)
    /\ LET stale == {forwards[k] : k \in {x \in DOMAIN forwards :
                                             ~Listening(forwards[x].LocalPort)}}
           r == [IdleH EXCEPT !.op = "RECONCILE", !.work = stale, !.staleForwards = stale]
       IN  IF stale = {}
           THEN Set(i, Finish(r))
           ELSE Set(i, [r EXCEPT !.pc = "rc_next"])
    /\ UNCHANGED <<forwards, envVars, now, sVars>>

\* Forwarder.Reconcile, one stale forward: FindControlSocket; a dead
\* connection queues the key for removal.
ReconcileResolve(i) ==
    /\ h[i].pc = "rc_next"
    /\ \E f \in h[i].work :
          LET sp == FindControlSocket(f.ConnectionInfo)
          IN  IF sp = ""
              THEN Set(i, [h[i] EXCEPT !.work = @ \ {f},
                                       !.toRemove = @ \cup {Key(f.ConnectionInfo, f.Host, f.RemotePort)}])
              ELSE Set(i, [h[i] EXCEPT !.pc = "rc_exec", !.cur = {f}, !.sock = sp,
                                       !.work = @ \ {f}])
    /\ UNCHANGED <<forwards, envVars, now, sVars>>

\* Forwarder.Reconcile, ssh -O forward -L for the stale forward; after a
\* failure the entry is kept for the next sweep.
ReconcileExec(i) ==
    /\ h[i].pc = "rc_exec"
    /\ \E f \in h[i].cur :
       \E okc \in (IF CanForward(f.ConnectionInfo, f.LocalPort) THEN {TRUE, FALSE} ELSE {FALSE}) :
          IF okc
          THEN /\ sshFwds' = [sshFwds EXCEPT ![f.ConnectionInfo] = @ \cup {f.LocalPort}]
               /\ Set(i, [h[i] EXCEPT !.pc = "rc_update"])
          ELSE /\ Set(i, [h[i] EXCEPT !.pc = "rc_next", !.cur = {}, !.sock = ""])
               /\ UNCHANGED sshFwds
    /\ UNCHANGED <<forwards, alive, gen, staticActive, now, sVars>>

\* A sweep that refreshes the socket path and leaves CreatedAt as it was.
ReconcileUpdateSocketOnly(i) ==
    /\ h[i].pc = "rc_update"
    /\ \E f \in h[i].cur :
          LET key == Key(f.ConnectionInfo, f.Host, f.RemotePort)
          IN  IF key \in DOMAIN forwards
              THEN forwards' = [forwards EXCEPT ![key].SocketPath = h[i].sock]
              ELSE UNCHANGED forwards
    /\ Set(i, [h[i] EXCEPT !.pc = "rc_next", !.cur = {}, !.sock = ""])
    /\ UNCHANGED <<envVars, now, sVars>>

\* Forwarder.Reconcile, the update under the write lock.
ReconcileUpdate(i) ==
    /\ h[i].pc = "rc_update"
    /\ \E f \in h[i].cur :
          LET key == Key(f.ConnectionInfo, f.Host, f.RemotePort)
          IN  IF key \in DOMAIN forwards
              THEN forwards' = [forwards EXCEPT ![key].SocketPath = h[i].sock,
                                                ![key].CreatedAt = now]
              ELSE UNCHANGED forwards
    /\ Set(i, [h[i] EXCEPT !.pc = "rc_next", !.cur = {}, !.sock = ""])
    /\ UNCHANGED <<envVars, now, sVars>>

\* A sweep that ends without its removals.
ReconcileNoRemove(i) ==
    /\ h[i].pc = "rc_next"
    /\ h[i].work = {}
    /\ Set(i, Finish(h[i]))
    /\ UNCHANGED <<forwards, envVars, now, sVars>>

\* Forwarder.Reconcile, the removals under the write lock, and the return.
ReconcileRemove(i) ==
    /\ h[i].pc = "rc_next"
    /\ h[i].work = {}
    /\ forwards' = Drop(h[i].toRemove)
    /\ Set(i, Finish(h[i]))
    /\ UNCHANGED <<envVars, now, sVars>>

\* -------------------------------------------------------------- cleanup
Item(f) == [conn |-> f.ConnectionInfo, host |-> f.Host, port |-> f.RemotePort]

\* Forwarder.CleanupForConnection: the forwards of the connection, copied
\* under the read lock.
CleanupForConnection(i, connectionInfo) ==
    /\ Free(i)
    /\ Set(i, [IdleH EXCEPT !.pc = "cl_next", !.op = "CLEANUP_CONN", !.conn = connectionInfo,
                            !.work = {Item(forwards[k]) : k \in {x \in DOMAIN forwards :
                                         forwards[x].ConnectionInfo = connectionInfo}}])
    /\ UNCHANGED <<forwards, envVars, now, sVars>>

\* Forwarder.CleanupForSocket: the forwards of the control socket.
CleanupForSocket(i, socketPath) ==
    /\ Free(i)
    /\ Set(i, [IdleH EXCEPT !.pc = "cl_next", !.op = "CLEANUP_SOCK", !.sock = socketPath,
                            !.work = {Item(forwards[k]) : k \in {x \in DOMAIN forwards :
                                         forwards[x].SocketPath = socketPath}}])
    /\ UNCHANGED <<forwards, envVars, now, sVars>>

\* A cleanup loop that stops after its first item.
CleanupNextDropsRest(i) ==
    /\ h[i].pc = "cl_next"
    /\ IF h[i].work = {}
       THEN Set(i, Finish(h[i]))
       ELSE \E it \in h[i].work :
               Set(i, [h[i] EXCEPT !.pc = "rm_lookup", !.ret = "cl_next",
                                   !.conn = it.conn, !.host = NormHost(it.host),
                                   !.rport = it.port,
                                   !.key = Key(it.conn, NormHost(it.host), it.port),
                                   !.work = {}])
    /\ UNCHANGED <<forwards, envVars, now, sVars>>

\* The cleanup loop: RemoveForward for the next item, its error dropped.
CleanupNext(i) ==
    /\ h[i].pc = "cl_next"
    /\ IF h[i].work = {}
       THEN Set(i, Finish(h[i]))
       ELSE \E it \in h[i].work :
               Set(i, [h[i] EXCEPT !.pc = "rm_lookup", !.ret = "cl_next",
                                   !.conn = it.conn, !.host = NormHost(it.host),
                                   !.rport = it.port,
                                   !.key = Key(it.conn, NormHost(it.host), it.port),
                                   !.work = @ \ {it}])
    /\ UNCHANGED <<forwards, envVars, now, sVars>>

\* ------------------------------------------------------- auto-discovery
\* extractConnectionInfo: the host part of an ssh_mux_<host>_... socket name.
ExtractConnectionInfo(socketPath) ==
    IF \E c \in Connections, g \in 0..MaxGen : socketPath = SocketPathOf(c, g)
    THEN CHOOSE c \in Connections : \E g \in 0..MaxGen : socketPath = SocketPathOf(c, g)
    ELSE socketPath

\* DiscoverActiveForwards: every local port a running mux master listens on,
\* with the remote port assumed equal to the local one.
DiscoverActiveForwards ==
    {[LocalPort |-> lp, RemotePort |-> lp, RemoteHost |-> "localhost",
      ConnectionInfo |-> ExtractConnectionInfo(SocketPathOf(c, gen[c])),
      SocketPath |-> SocketPathOf(c, gen[c])] :
        <<c, lp>> \in {x \in Connections \X Ports : alive[x[1]] /\ x[2] \in sshFwds[x[1]]}}

\* A new daemon process: Daemon.Run up to autoDiscoverForwards.  The registry
\* starts empty, the goroutines of the old process are gone.
DaemonStart ==
    /\ h[Maint].op # "DISCOVER" \/ h[Maint].pc = "done"
    /\ forwards' = [k \in {} |-> 0]
    /\ h' = [i \in Handlers |->
               IF i = Maint
               THEN [IdleH EXCEPT !.pc = "reg_next", !.op = "DISCOVER",
                                  !.work = DiscoverActiveForwards]
               ELSE IdleH]
    /\ UNCHANGED <<envVars, now, sVars>>

\* Daemon.autoDiscoverForwards, the loop: the next discovered forward goes to
\* RegisterExistingForward, which first checks the key under the read lock.
RegisterExistingCheck(i) ==
    /\ h[i].pc = "reg_next"
    /\ IF h[i].work = {}
       THEN Set(i, Finish(h[i]))
       ELSE \E d \in h[i].work :
               LET key == Key(d.ConnectionInfo, NormHost(d.RemoteHost), d.RemotePort)
               IN  IF d.ConnectionInfo = "" \/ key \in DOMAIN forwards
                   THEN Set(i, [h[i] EXCEPT !.work = @ \ {d}])
                   ELSE Set(i, [h[i] EXCEPT !.pc = "reg_store", !.work = @ \ {d},
                                   !.conn = d.ConnectionInfo, !.host = NormHost(d.RemoteHost),
                                   !.rport = d.RemotePort,
                                   !.lport = NormLocalPort(d.LocalPort, d.RemotePort),
                                   !.sock = d.SocketPath, !.key = key])
    /\ UNCHANGED <<forwards, envVars, now, sVars>>

\* RegisterExistingForward, the insert under the write lock: no ssh command.
RegisterExistingStore(i) ==
    /\ h[i].pc = "reg_store"
    /\ forwards' = Put(h[i].key, NewForward(h[i]))
    /\ Set(i, [h[i] EXCEPT !.pc = "reg_next", !.conn = "", !.host = "", !.rport = 0,
                           !.lport = 0, !.sock = "", !.key = ""])
    /\ UNCHANGED <<envVars, now, sVars>>

\* What can be at the socket address when a daemon starts: nothing; a file
\* nobody listens on; a bankshot daemon; a process that accepts and does not
\* answer within the read deadline; a process that answers something else.
SockFiles == {"none", "stale", "daemon", "silent", "foreign"}

\* checkExistingDaemon, what the probe comes back with: os.Stat, net.Dial,
\* the STATUS request, ReadString and ParseResponse.
Probe(file) ==
    CASE file = "none" -> "absent"
      [] file = "stale" -> "no-dial"
      [] file = "silent" -> "no-answer"
      [] file = "foreign" -> "unparsable"
      [] OTHER -> "response"

\* A check that takes every connection made for a running daemon.
ExistingDaemonIfDialled(saw) == saw \in {"no-answer", "unparsable", "response"}

\* checkExistingDaemon returns an error: a response that parses, successful
\* or not.
ExistingDaemon(saw) == saw = "response"

\* Daemon.Run calls checkExistingDaemon and returns its error.
CheckExistingDaemon ==
    /\ run.pc = "check"
    /\ run' = [pc |-> IF ExistingDaemon(Probe(sockFile)) THEN "refused" ELSE "remove",
               saw |-> Probe(sockFile)]
    /\ UNCHANGED <<forwards, h, envVars, now, cfg, activeForwards, pendingRemovals,
                   events, vmSockets, s, cancelled, lastOpened, issuedSince, okSince,
                   socketReachable, m, bindAddr, policyIn, policyOut, sockFile, w, o, sysmon>>

\* Daemon.Run: os.RemoveAll of the socket path.
RemoveSocket ==
    /\ run.pc = "remove"
    /\ sockFile' = "none"
    /\ run' = [run EXCEPT !.pc = "listen"]
    /\ UNCHANGED <<forwards, h, envVars, now, cfg, activeForwards, pendingRemovals,
                   events, vmSockets, s, cancelled, lastOpened, issuedSince, okSince,
                   socketReachable, m, bindAddr, policyIn, policyOut, w, o, sysmon>>

\* Daemon.Run: net.Listen creates the socket, autoDiscoverForwards begins.
Listen ==
    /\ run.pc = "listen"
    /\ sockFile' = "ours"
    /\ run' = [run EXCEPT !.pc = "serving"]
    /\ h' = [h EXCEPT ![Maint] = [IdleH EXCEPT !.pc = "reg_next", !.op = "DISCOVER",
                                               !.work = DiscoverActiveForwards]]
    /\ UNCHANGED <<forwards, envVars, now, cfg, activeForwards, pendingRemovals,
                   events, vmSockets, s, cancelled, lastOpened, issuedSince, okSince,
                   socketReachable, m, bindAddr, policyIn, policyOut, w, o, sysmon>>

\* A daemon that accepts connections as soon as it listens.
ServingAtOnce == TRUE

\* The accept loop runs once auto-discovery has returned.
Serving == h[Maint].op # "DISCOVER" \/ h[Maint].pc = "done"

\* What the accept loop, the connections and the shutdown of the daemon leave
\* alone, the handlers aside.
nonRun == <<forwards, envVars, now, cfg, activeForwards, pendingRemovals, events,
            vmSockets, s, cancelled, lastOpened, issuedSince, okSince,
            socketReachable, m, bindAddr, policyIn, policyOut, w, o, sysmon>>

\* acceptConnections: a client connects, handleConnection waits in ReadString
\* for its request line.
ClientConnects(i) ==
    /\ run.pc = "serving"
    /\ Serving
    /\ Accepts(i)
    /\ Set(i, [IdleH EXCEPT !.pc = "read"])
    /\ UNCHANGED <<sockFile, run, nonRun>>

\* The request line of a connected client arrives: a FORWARD.
ClientSendsForward(i, c, rp) ==
    /\ h[i].pc = "read"
    /\ Set(i, ForwardArrives(c, "localhost", rp, 0, ""))
    /\ UNCHANGED <<sockFile, run, nonRun>>

\* The client closes the connection without a request: ReadString returns
\* io.EOF and the handler returns.
ClientHangsUp(i) ==
    /\ h[i].pc = "read"
    /\ Set(i, Finish(h[i]))
    /\ UNCHANGED <<sockFile, run, nonRun>>

\* Daemon.Run gets a signal; Daemon.shutdown cancels the context and closes
\* the listener.
Shutdown ==
    /\ run.pc = "serving"
    /\ Serving
    /\ run' = [run EXCEPT !.pc = "draining"]
    /\ UNCHANGED <<h, sockFile, nonRun>>

\* Daemon.shutdown after d.wg.Wait(): every handler goroutine has returned;
\* the socket file is removed.
ShutdownReturns ==
    /\ run.pc = "draining"
    /\ \A i \in Clients : Free(i)
    /\ sockFile' = "none"
    /\ run' = [run EXCEPT !.pc = "stopped"]
    /\ UNCHANGED <<h, nonRun>>

\* ---------------------------------------------------------- environment
ConnDown(c) ==
    /\ alive[c]
    /\ alive' = [alive EXCEPT ![c] = FALSE]
    /\ sshFwds' = [sshFwds EXCEPT ![c] = {}]
    /\ staticActive' = [staticActive EXCEPT ![c] = {}]
    /\ UNCHANGED <<forwards, h, gen, now, sVars>>

ConnUp(c) ==
    /\ ~alive[c]
    /\ gen[c] < MaxGen
    /\ alive' = [alive EXCEPT ![c] = TRUE]
    /\ gen' = [gen EXCEPT ![c] = @ + 1]
    /\ staticActive' = [staticActive EXCEPT ![c] = StaticSockets]
    /\ UNCHANGED <<forwards, h, sshFwds, now, sVars>>

\* ----------------------------------------------------------- supervisor
VmPorts == {80, 3000}                   \* ports of the remote host's listeners

IdleS == [pc |-> "idle", port |-> 0, todo |-> {}, sent |-> FALSE]

\* socketConnectivityLoop waits for its ticker.
\* History: fwdSent and unfSent are the requests of the running Reconcile,
\* last and prev the outcomes of the latest probe and of the one before it.
IdleM == [pc |-> "idle", port |-> 0, daemonForwards |-> {}, toForward |-> {},
          toUnforward |-> {}, sent |-> FALSE, fwdSent |-> {}, unfSent |-> {},
          last |-> FALSE, prev |-> FALSE]

\* The loop is back at its ticker.
BackToTicker == [IdleM EXCEPT !.last = m.last, !.prev = m.prev]

\* Addresses a listener can be bound to: wildcard, loopback, VPN, LAN.
BindAddrs == {"0.0.0.0", "127.0.0.1", "::", "::1", "100.64.0.5", "192.168.1.100"}

\* No call of the policy is under way.
NoCall == [port |-> 0, bindAddr |-> "", portRanges |-> <<>>, ignorePorts |-> {}]

\* monitor.New: socketReachable has its zero value, the loop has not probed.
InitMon ==
    /\ socketReachable = FALSE
    /\ m = IdleM

\* The daemon listens on its own socket.
InitRun ==
    /\ sockFile = "ours"
    /\ run = [pc |-> "serving", saw |-> "absent"]

\* The policy is not being called on its own.
InitPolicy ==
    /\ policyIn = NoCall
    /\ policyOut = "unset"

\* IsLocalAddr: wildcard and loopback addresses, IPv4 and IPv6.
IsLocalAddr(addr) == addr \in {"0.0.0.0", "127.0.0.1", "::", "::1"}

\* No wrap command runs.
IdleW == [pc |-> "off", child |-> "none", hung |-> FALSE, ports |-> {},
          events |-> <<>>, closed |-> FALSE, existingPorts |-> {},
          ourForwardedPorts |-> {}, g |-> "recv", gport |-> 0, visited |-> {},
          sigs |-> 0, signalled |-> FALSE, killed |-> FALSE,
          before |-> {}, okFwd |-> {}, sentUnf |-> {},
          waiters |-> {}, waits |-> 0, closes |-> 0, done |-> FALSE]

\* The two observers behind PortEventSource.
Backends == {"ebpf", "poll"}

\* An observer whose Start has returned.
StartedO == [pc |-> "running", backend |-> "ebpf", todo |-> {}, initial |-> {},
             burst |-> [p \in VmPorts |-> 0]]

\* NewSystemMonitor: empty maps, both loops yet to start.
\* History: seen is the time at which checkPorts first saw the bind that a
\* port has now, -1 when no poll has seen it; sentClosed tells that a send met
\* the closed channel.
NewSystemMonitor == [knownPorts |-> {}, pendingPorts |-> [p \in {} |-> 0], loop |-> "wait",
          deb |-> "wait", at |-> 0, closed |-> FALSE, sentClosed |-> FALSE,
          seen |-> [p \in VmPorts |-> -1]]

\* The commands that a specification does not run; the observer has started.
InitOff == w = IdleW /\ o = StartedO /\ sysmon = NewSystemMonitor

\* NewSessionMonitor: empty maps; nothing listens yet.
InitMaps ==
    /\ InitOff
    /\ activeForwards = {}
    /\ pendingRemovals = [p \in {} |-> 0]
    /\ events = <<>>
    /\ vmSockets = [p \in VmPorts |-> 0]
    /\ s = IdleS
    /\ cancelled = FALSE
    /\ lastOpened = [p \in VmPorts |-> -1]
    /\ issuedSince = {}
    /\ okSince = {}

\* NewSessionMonitor with the default policy; every listener is wildcard-bound.
InitS ==
    /\ cfg \in [portRanges : {<<>>}, ignorePorts : {{}}, gracePeriod : 1..MaxGrace]
    /\ InitMaps
    /\ bindAddr = [p \in VmPorts |-> "0.0.0.0"]
    /\ InitMon
    /\ InitPolicy
    /\ InitRun

\* A policy that looks at the ranges before the ignore list.
ShouldForwardPortRangesFirst(port, portRanges, ignorePorts) ==
    IF Len(portRanges) > 0
    THEN \E n \in 1..Len(portRanges) :
            port >= portRanges[n].Start /\ port <= portRanges[n].End
    ELSE port \notin ignorePorts /\ port >= 1024

\* ShouldForwardPort: never an ignored port; inside a configured range, or
\* without ranges any unprivileged port.
ShouldForwardPort(port, portRanges, ignorePorts) ==
    IF port \in ignorePorts THEN FALSE
    ELSE IF Len(portRanges) > 0
         THEN \E n \in 1..Len(portRanges) :
                 port >= portRanges[n].Start /\ port <= portRanges[n].End
         ELSE port >= 1024

\* ebpfMonitor.readLoop, the send: non-blocking, a full channel drops the event.
Emit(type, port) ==
    events' = IF Len(events) < ChanCap
              THEN Append(events, [Type |-> type, Port |-> port,
                                   BindAddr |-> bindAddr[port]])
              ELSE events

\* A socket on the remote host enters LISTEN: the observer reports PortOpened.
Bind(p) ==
    /\ s.pc # "exited"
    /\ vmSockets[p] < MaxSock
    /\ vmSockets' = [vmSockets EXCEPT ![p] = @ + 1]
    /\ Emit("opened", p)
    /\ UNCHANGED <<mVars, forwards, h, envVars, now, cfg, activeForwards, pendingRemovals, s,
                   cancelled, lastOpened, issuedSince, okSince>>

\* A listening socket closes: the observer reports PortClosed.
Close(p) ==
    /\ s.pc # "exited"
    /\ vmSockets[p] > 0
    /\ vmSockets' = [vmSockets EXCEPT ![p] = @ - 1]
    /\ Emit("closed", p)
    /\ UNCHANGED <<mVars, forwards, h, envVars, now, cfg, activeForwards, pendingRemovals, s,
                   cancelled, lastOpened, issuedSince, okSince>>

\* The daemon's socket, forwarded to the remote host by the session's master.
Reachable == alive[Session] /\ "bankshot.sock" \in staticActive[Session]

\* daemonClient.SendRequest, the dial and the write: the request starts a
\* handler of the daemon unless the socket is unreachable.
SendRequest(rec) ==
    IF Reachable THEN h' = [h EXCEPT ![0] = rec] ELSE UNCHANGED h

\* A client that does not wait for the response.
ReturnedAtOnce == TRUE

\* daemonClient.SendRequest has returned to the supervisor.
Returned == ~s.sent \/ h[0].pc = "done"

\* err == nil and resp.Success
Succeeded == s.sent /\ Reachable /\ h[0].ok

Without(f, p) == [q \in DOMAIN f \ {p} |-> f[q]]

With(f, p, v) == [q \in DOMAIN f \cup {p} |-> IF q = p THEN v ELSE f[q]]

\* A handler that sends FORWARD for every OPENED that passes the policy.
ShouldRequestAlways(pass, opened, wasPending, tracked) == pass /\ opened

\* A handler that sends FORWARD only for untracked ports.
ShouldRequestUntracked(pass, opened, wasPending, tracked) == pass /\ opened /\ ~tracked

\* handlePortEvent and handlePortOpened, the way to requestForward: a port that
\* passes the policy and was pending removal or is not tracked.
ShouldRequest(pass, opened, wasPending, tracked) ==
    pass /\ opened /\ (wasPending \/ ~tracked)

\* A handler that marks every tracked port whose CLOSED arrives.
MarksPendingUnchecked(tracked, listening) == tracked

\* A handlePortClosed that marks a closed port without asking whether it is
\* tracked.
MarksPendingUntracked(tracked, listening) == ~listening

\* handlePortClosed: a tracked port is marked unless GetListeningPorts still
\* shows it.
MarksPending(tracked, listening) == tracked /\ ~listening

\* handleEvents takes the next event: handlePortEvent with handlePortOpened or
\* handlePortClosed, up to the RPC of requestForward.
HandlePortEvent ==
    /\ s.pc = "idle"
    /\ events # <<>>
    /\ LET p == Head(events).Port
           opened == Head(events).Type = "opened"
           pass == ShouldForwardPort(p, cfg.portRanges, cfg.ignorePorts)
           wasPending == p \in DOMAIN pendingRemovals
           request == ShouldRequest(pass, opened, wasPending, p \in activeForwards)
           mark == pass /\ ~opened /\ MarksPending(p \in activeForwards, vmSockets[p] > 0)
       IN  /\ events' = Tail(events)
           /\ pendingRemovals' = IF pass /\ opened /\ wasPending
                                 THEN Without(pendingRemovals, p)
                                 ELSE IF mark THEN With(pendingRemovals, p, now)
                                 ELSE pendingRemovals
           /\ IF request
              THEN /\ SendRequest(ForwardArrives(Session, "localhost", p, p, ""))
                   /\ s' = [pc |-> "ev_fwd", port |-> p, todo |-> {}, sent |-> Reachable]
              ELSE UNCHANGED <<h, s>>
           /\ lastOpened' = IF pass /\ opened THEN [lastOpened EXCEPT ![p] = now]
                          ELSE lastOpened
           /\ issuedSince' = IF opened
                             THEN (IF request THEN issuedSince \cup {p} ELSE issuedSince)
                             ELSE issuedSince \ {p}
           /\ okSince' = IF opened THEN okSince ELSE okSince \ {p}
    /\ UNCHANGED <<mVars, forwards, envVars, now, cfg, activeForwards, vmSockets, cancelled>>

\* requestForward after the RPC: the forward is tracked only after a success.
RequestForwardReturn ==
    /\ s.pc = "ev_fwd"
    /\ Returned
    /\ activeForwards' = IF Succeeded THEN activeForwards \cup {s.port} ELSE activeForwards
    /\ okSince' = IF Succeeded THEN okSince \cup {s.port} ELSE okSince
    /\ s' = IdleS
    /\ UNCHANGED <<mVars, forwards, h, envVars, now, cfg, pendingRemovals, events, vmSockets,
                   cancelled, lastOpened, issuedSince>>

\* A collector without a grace period.
GraceOverAtOnce(since) == TRUE

\* now.Sub(pendingSince) >= m.gracePeriod
GraceOver(since) == now - since >= cfg.gracePeriod

\* cleanupLoop's tick: cleanupPendingRemovals takes the mutex and the time; the
\* removals whose grace period is over.
CleanupPendingRemovals ==
    /\ s.pc = "idle"
    /\ LET due == {p \in DOMAIN pendingRemovals : GraceOver(pendingRemovals[p])}
       IN  /\ due # {}
           /\ s' = [pc |-> "gc", port |-> 0, todo |-> due, sent |-> FALSE]
    /\ UNCHANGED <<mVars, forwards, h, envVars, now, cfg, activeForwards, pendingRemovals, events,
                   vmSockets, cancelled, lastOpened, issuedSince, okSince>>

\* The mutex is released when the range loop has nothing left.
LoopOn(pc, port, todo, sent) ==
    IF pc \in {"gc", "cl"} /\ todo = {} THEN IdleS
    ELSE [pc |-> pc, port |-> port, todo |-> todo, sent |-> sent]

\* cleanupPendingRemovals, the next due removal: removeForward sends UNFORWARD
\* for a tracked forward.
CollectNext ==
    /\ s.pc = "gc"
    /\ \E p \in s.todo :
          IF p \in activeForwards
          THEN /\ SendRequest(UnforwardArrives(Session, "localhost", p))
               /\ s' = [s EXCEPT !.pc = "gc_rpc", !.port = p, !.sent = Reachable]
               /\ UNCHANGED pendingRemovals
          ELSE /\ pendingRemovals' = Without(pendingRemovals, p)
               /\ s' = LoopOn("gc", 0, s.todo \ {p}, FALSE)
               /\ UNCHANGED h
    /\ UNCHANGED <<mVars, forwards, envVars, now, cfg, activeForwards, events, vmSockets,
                   cancelled, lastOpened, issuedSince, okSince>>

\* A collector that drops the mark and goes on tracking the port.
CollectReturnKeepsForward ==
    /\ s.pc = "gc_rpc"
    /\ Returned
    /\ pendingRemovals' = Without(pendingRemovals, s.port)
    /\ s' = LoopOn("gc", 0, s.todo \ {s.port}, FALSE)
    /\ UNCHANGED <<mVars, forwards, h, envVars, now, cfg, events, vmSockets, cancelled,
                   lastOpened, issuedSince, okSince, activeForwards>>

\* cleanupPendingRemovals after removeForward: both maps drop the port,
\* whatever the RPC answered.
CollectReturn ==
    /\ s.pc = "gc_rpc"
    /\ Returned
    /\ activeForwards' = activeForwards \ {s.port}
    /\ pendingRemovals' = Without(pendingRemovals, s.port)
    /\ s' = LoopOn("gc", 0, s.todo \ {s.port}, FALSE)
    /\ UNCHANGED <<mVars, forwards, h, envVars, now, cfg, events, vmSockets, cancelled,
                   lastOpened, issuedSince, okSince>>

\* The context of SessionMonitor.Start is cancelled.
Cancel ==
    /\ ~cancelled
    /\ s.pc # "exited"
    /\ cancelled' = TRUE
    /\ UNCHANGED <<mVars, forwards, h, envVars, now, cfg, activeForwards, pendingRemovals, events,
                   vmSockets, s, lastOpened, issuedSince, okSince>>

\* SessionMonitor.cleanup takes the mutex: every tracked forward is to go.
SessionCleanup ==
    /\ cancelled
    /\ s.pc = "idle"
    /\ s' = [pc |-> "cl", port |-> 0, todo |-> activeForwards, sent |-> FALSE]
    /\ UNCHANGED <<mVars, forwards, h, envVars, now, cfg, activeForwards, pendingRemovals, events,
                   vmSockets, cancelled, lastOpened, issuedSince, okSince>>

\* cleanup, the next forward: removeForward sends UNFORWARD; after the last one
\* the maps are replaced by empty ones and Start returns.
SessionCleanupNext ==
    /\ s.pc = "cl"
    /\ IF s.todo = {}
       THEN /\ activeForwards' = {}
            /\ pendingRemovals' = [p \in {} |-> 0]
            /\ s' = [IdleS EXCEPT !.pc = "exited"]
            /\ UNCHANGED h
       ELSE /\ \E p \in s.todo :
                  /\ SendRequest(UnforwardArrives(Session, "localhost", p))
                  /\ s' = [s EXCEPT !.pc = "cl_rpc", !.port = p, !.sent = Reachable]
            /\ UNCHANGED <<activeForwards, pendingRemovals>>
    /\ UNCHANGED <<mVars, forwards, envVars, now, cfg, events, vmSockets, cancelled,
                   lastOpened, issuedSince, okSince>>

\* cleanup after removeForward: the answer is only logged.
SessionCleanupReturn ==
    /\ s.pc = "cl_rpc"
    /\ Returned
    /\ s' = [s EXCEPT !.pc = "cl", !.port = 0, !.todo = @ \ {s.port}, !.sent = FALSE]
    /\ UNCHANGED <<mVars, forwards, h, envVars, now, cfg, activeForwards, pendingRemovals, events,
                   vmSockets, cancelled, lastOpened, issuedSince, okSince>>

\* ---------------------------------------------- supervisor: the Monitor
\* What the Monitor's goroutine leaves alone, the handlers of the daemon aside.
nonMonitor == <<forwards, envVars, now, cfg, activeForwards, pendingRemovals, events,
                vmSockets, s, cancelled, lastOpened, issuedSince, okSince, bindAddr,
                policyIn, policyOut, sockFile, run, w, o, sysmon>>

\* The handler of the daemon that serves the Monitor's requests.
MonitorSlot == 1

\* localDaemonClient.SendRequest of the Monitor: dial and write.
MonitorSendRequest(rec) ==
    IF Reachable THEN h' = [h EXCEPT ![MonitorSlot] = rec] ELSE UNCHANGED h

\* localDaemonClient.SendRequest has returned to the Monitor.
MonitorReturned == ~m.sent \/ h[MonitorSlot].pc = "done"

\* socketConnectivityLoop, the ticker fires: the STATUS probe, err == nil iff
\* the daemon's socket answers.
ProbeSend ==
    /\ m.pc = "idle"
    /\ ~cancelled
    /\ m' = [m EXCEPT !.pc = "probed", !.sent = Reachable, !.last = Reachable,
                      !.prev = m.last]
    /\ UNCHANGED <<h, socketReachable, nonMonitor>>

\* A loop that reconciles after every successful probe.
TriggersOnSuccess(reachable, was) == reachable

\* reachable && !d.socketReachable
Triggers(reachable, was) == reachable /\ ~was

\* socketConnectivityLoop after the probe: Reconcile on the way from
\* unreachable to reachable, else the flag is stored at once.
ProbeDecide ==
    /\ m.pc = "probed"
    /\ IF Triggers(m.sent, socketReachable)
       THEN /\ m' = [m EXCEPT !.pc = "rc_list"]
            /\ UNCHANGED socketReachable
       ELSE /\ m' = BackToTicker
            /\ socketReachable' = m.sent
    /\ UNCHANGED <<h, nonMonitor>>

\* Monitor.Reconcile, the LIST request: the daemon's forwards of this session,
\* by remote port.  A failed request ends the reconcile.
MonitorReconcileList ==
    /\ m.pc = "rc_list"
    /\ IF Reachable
       THEN /\ m' = [m EXCEPT !.pc = "rc_plan",
                             !.daemonForwards =
                                 {forwards[k].RemotePort :
                                     k \in {x \in DOMAIN forwards :
                                               forwards[x].ConnectionInfo = Session}}]
            /\ UNCHANGED socketReachable
       ELSE /\ m' = BackToTicker
            /\ socketReachable' = TRUE
    /\ UNCHANGED <<h, nonMonitor>>

\* GetListeningPorts: every port with a listening socket.
GetListeningPorts == {p \in VmPorts : vmSockets[p] > 0}

\* vmListeningInRange: the listening ports that the policy accepts.
VmListeningInRange ==
    {p \in GetListeningPorts : ShouldForwardPort(p, cfg.portRanges, cfg.ignorePorts)}

\* toForward: listening, accepted, not in the daemon's list.
ToForward(daemonForwards) == VmListeningInRange \ daemonForwards

\* toUnforward: in the daemon's list, not listening at all.
ToUnforward(daemonForwards) == daemonForwards \ GetListeningPorts

\* Monitor.Reconcile reads the listening ports and decides what to do.
MonitorReconcilePlan ==
    /\ m.pc = "rc_plan"
    /\ m' = [m EXCEPT !.pc = "rc_fwd",
                      !.toForward = ToForward(m.daemonForwards),
                      !.toUnforward = ToUnforward(m.daemonForwards)]
    /\ UNCHANGED <<h, socketReachable, nonMonitor>>

\* Monitor.Reconcile, "Execute forwards": the next FORWARD request.
MonitorReconcileForward ==
    /\ m.pc = "rc_fwd"
    /\ IF m.toForward = {}
       THEN /\ m' = [m EXCEPT !.pc = "rc_unf"]
            /\ UNCHANGED h
       ELSE \E p \in m.toForward :
               /\ MonitorSendRequest(ForwardArrives(Session, "localhost", p, p, ""))
               /\ m' = [m EXCEPT !.pc = "rc_fwd_rpc", !.port = p, !.sent = Reachable,
                                 !.fwdSent = @ \cup {p}]
    /\ UNCHANGED <<socketReachable, nonMonitor>>

\* The FORWARD request has returned; its answer is only logged.
MonitorReconcileForwardReturn ==
    /\ m.pc = "rc_fwd_rpc"
    /\ MonitorReturned
    /\ m' = [m EXCEPT !.pc = "rc_fwd", !.port = 0, !.toForward = @ \ {m.port},
                      !.sent = FALSE]
    /\ UNCHANGED <<h, socketReachable, nonMonitor>>

\* Monitor.Reconcile, "Execute unforwards": the next UNFORWARD request; after
\* the last one Reconcile returns and the loop stores the flag.
MonitorReconcileUnforward ==
    /\ m.pc = "rc_unf"
    /\ IF m.toUnforward = {}
       THEN /\ m' = BackToTicker
            /\ socketReachable' = TRUE
            /\ UNCHANGED h
       ELSE /\ \E p \in m.toUnforward :
                  /\ MonitorSendRequest(UnforwardArrives(Session, "localhost", p))
                  /\ m' = [m EXCEPT !.pc = "rc_unf_rpc", !.port = p, !.sent = Reachable,
                                    !.unfSent = @ \cup {p}]
            /\ UNCHANGED socketReachable
    /\ UNCHANGED nonMonitor

\* The UNFORWARD request has returned; its answer is only logged.
MonitorReconcileUnforwardReturn ==
    /\ m.pc = "rc_unf_rpc"
    /\ MonitorReturned
    /\ m' = [m EXCEPT !.pc = "rc_unf", !.port = 0, !.toUnforward = @ \ {m.port},
                      !.sent = FALSE]
    /\ UNCHANGED <<h, socketReachable, nonMonitor>>

\* The steps of Monitor.Reconcile.
MonitorReconcileStep ==
    \/ MonitorReconcileList
    \/ MonitorReconcilePlan
    \/ MonitorReconcileForward
    \/ MonitorReconcileForwardReturn
    \/ MonitorReconcileUnforward
    \/ MonitorReconcileUnforwardReturn

\* time.Now() advances.
\* ------------------------------------------------ supervisor: the observers
\* What the Start of an observer leaves alone.
nonObserver == <<forwards, h, envVars, now, cfg, activeForwards, pendingRemovals,
                 vmSockets, s, cancelled, lastOpened, issuedSince, okSince,
                 socketReachable, m, bindAddr, policyIn, policyOut, sockFile, run, w, sysmon>>

\* GetListeningPorts at the start of an observer.
InitialPorts == {p \in VmPorts : vmSockets[p] > 0}

\* ebpfMonitor.Start up to its loop over initialPorts.
EbpfStart ==
    /\ o.pc = "off"
    /\ o.backend = "ebpf"
    /\ o' = [o EXCEPT !.pc = "burst", !.todo = InitialPorts, !.initial = InitialPorts]
    /\ UNCHANGED <<events, nonObserver>>

\* ebpfMonitor.Start, m.events <- PortEvent{Type: PortOpened, ...} for one
\* initial port: a send that waits for room in the channel.
BurstSend ==
    /\ o.pc = "burst"
    /\ Len(events) < ChanCap
    /\ \E p \in o.todo :
          /\ Emit("opened", p)
          /\ o' = [o EXCEPT !.todo = @ \ {p}, !.burst[p] = @ + 1]
    /\ UNCHANGED nonObserver

\* ebpfMonitor.Start returns after go m.readLoop.
EbpfStartReturns ==
    /\ o.pc = "burst"
    /\ o.todo = {}
    /\ o' = [o EXCEPT !.pc = "running"]
    /\ UNCHANGED <<events, nonObserver>>

\* SystemMonitor.Start: the initial ports become knownPorts, no event is sent.
PollStart ==
    /\ o.pc = "off"
    /\ o.backend = "poll"
    /\ o' = [o EXCEPT !.pc = "running", !.initial = InitialPorts]
    /\ UNCHANGED <<events, nonObserver>>

\* The observer waits in a send on its event channel.
Blocked == o.pc = "burst" /\ o.todo # {} /\ Len(events) >= ChanCap

\* ------------------------------------- supervisor: the polling observer
\* What the polling observer and the listeners of the remote host leave alone.
nonPoll == <<forwards, h, envVars, cfg, activeForwards, pendingRemovals, s, lastOpened,
             issuedSince, okSince, socketReachable, m, bindAddr, policyIn, policyOut,
             sockFile, run, w, o>>

\* debounceTime, 100 ms, in periods of the ticker of processDebounced (50 ms).
DebounceTime == 2

\* The orders in which a range loop can visit the keys of a map.
Orders(keys) ==
    {sq \in [1..Cardinality(keys) -> keys] : \A i, j \in DOMAIN sq : sq[i] = sq[j] => i = j}

\* select { case m.events <- event: ... default: ... } for each port in turn: an
\* event that finds the channel full is dropped.
RECURSIVE TrySend(_, _, _)
TrySend(ch, type, ports) ==
    IF ports = <<>> THEN ch
    ELSE TrySend(IF Len(ch) < ChanCap
                 THEN Append(ch, [Type |-> type, Port |-> Head(ports),
                                  BindAddr |-> bindAddr[Head(ports)]])
                 ELSE ch,
                 type, Tail(ports))

\* A process of the remote host starts to listen on a port; nobody is told.
PortBinds(p) ==
    /\ vmSockets[p] = 0
    /\ vmSockets' = [vmSockets EXCEPT ![p] = 1]
    /\ UNCHANGED <<sysmon, events, now, cancelled, nonPoll>>

\* The listener of a port goes away.
PortCloses(p) ==
    /\ vmSockets[p] > 0
    /\ vmSockets' = [vmSockets EXCEPT ![p] = 0]
    /\ sysmon' = [sysmon EXCEPT !.seen[p] = -1]
    /\ UNCHANGED <<events, now, cancelled, nonPoll>>

\* pendingPorts after the first loop of checkPorts: a port that is neither
\* known nor pending becomes pending as of now.
WithNew(pending, current, known) ==
    [p \in DOMAIN pending \cup (current \ known) |->
        IF p \in DOMAIN pending THEN pending[p] ELSE now]

\* pendingPorts after the second loop of checkPorts: delete(m.pendingPorts, key)
\* for the known ports that have gone.
ForgetClosed(pending, current, known) ==
    [p \in DOMAIN pending \ (known \ current) |-> pending[p]]

\* monitorLoop, case <-ticker.C: checkPorts under m.mu.
CheckPorts ==
    /\ sysmon.loop = "wait"
    /\ LET current == InitialPorts
           known == sysmon.knownPorts
           gone == known \ current
       IN  /\ \E sq \in Orders(gone) : events' = TrySend(events, "closed", sq)
           /\ sysmon' = [sysmon EXCEPT
                  !.knownPorts = known \ gone,
                  !.pendingPorts = ForgetClosed(WithNew(@, current, known), current, known),
                  !.seen = [p \in VmPorts |->
                              IF p \in current /\ @[p] = -1 THEN now ELSE @[p]]]
    /\ UNCHANGED <<vmSockets, now, cancelled, nonPoll>>

\* monitorLoop, case <-ctx.Done(): close(m.events) and return.
MonitorLoopDone ==
    /\ cancelled
    /\ sysmon.loop = "wait"
    /\ sysmon' = [sysmon EXCEPT !.loop = "returned", !.closed = TRUE]
    /\ UNCHANGED <<vmSockets, events, now, cancelled, nonPoll>>

\* processDebounced, case <-ticker.C, taken before the context is cancelled:
\* processPendingPorts reads the clock and waits for m.mu.
DebounceTicks ==
    /\ ~cancelled
    /\ sysmon.deb = "wait"
    /\ sysmon' = [sysmon EXCEPT !.deb = "scan", !.at = now]
    /\ UNCHANGED <<vmSockets, events, now, cancelled, nonPoll>>

\* processDebounced, case <-ctx.Done(): return.
DebounceDone ==
    /\ cancelled
    /\ sysmon.deb = "wait"
    /\ sysmon' = [sysmon EXCEPT !.deb = "returned"]
    /\ UNCHANGED <<vmSockets, events, now, cancelled, nonPoll>>

\* The pending ports that processPendingPorts confirms: pending for the
\* debounce time and listening now.
Confirmed ==
    {p \in DOMAIN sysmon.pendingPorts :
        sysmon.at - sysmon.pendingPorts[p] >= DebounceTime /\ p \in InitialPorts}

\* processPendingPorts under m.mu: a confirmed port becomes known and its
\* PortOpened is sent; a send on the closed channel panics.
ProcessPendingPorts ==
    /\ sysmon.deb = "scan"
    /\ \E sq \in Orders(Confirmed) :
          events' = IF sysmon.closed THEN events ELSE TrySend(events, "opened", sq)
    /\ sysmon' = [sysmon EXCEPT
           !.knownPorts = @ \cup Confirmed,
           !.pendingPorts = [p \in DOMAIN @ \ Confirmed |-> @[p]],
           !.sentClosed = @ \/ (sysmon.closed /\ Confirmed # {}),
           !.at = 0,
           !.deb = IF sysmon.closed /\ Confirmed # {} THEN "panicked" ELSE "wait"]
    /\ UNCHANGED <<vmSockets, now, cancelled, nonPoll>>

\* ------------------------------------------------------- the wrap command
\* What the wrap command, its child and its observer leave alone, the handlers
\* of the daemon aside.
nonWrap == <<forwards, envVars, now, cfg, activeForwards, pendingRemovals, events,
             vmSockets, s, cancelled, lastOpened, issuedSince, okSince,
             socketReachable, m, bindAddr, policyIn, policyOut, sockFile, run, o, sysmon>>

\* The handlers of the daemon that serve wrap's main goroutine and its event
\* goroutine.
WrapMainSlot == 1
WrapEventSlot == 2

\* The remote ports the daemon lists for wrap's connection.
ListedFor(c) == {forwards[k].RemotePort : k \in {j \in DOMAIN forwards : forwards[j].ConnectionInfo = c}}

\* wrap up to its wait: the child starts, the observer starts with the child's
\* ports as known, a LIST that succeeds fills existingPorts.
WrapStart ==
    /\ w.pc = "off"
    /\ Free(WrapMainSlot)
    /\ \E hung \in BOOLEAN :
          w' = [w EXCEPT !.pc = "wait", !.child = "running", !.hung = hung,
                         !.waiters = {"wrap"}, !.waits = 1,
                         !.existingPorts = IF Reachable THEN ListedFor(Session) ELSE {},
                         !.before = ListedFor(Session)]
    /\ UNCHANGED <<h, nonWrap>>

\* Monitor.checkPorts and processPendingPorts: the send on the event channel
\* is dropped when the channel is full.
WrapEmit(type, port) ==
    IF Len(w.events) < ChanCap /\ ~w.closed
    THEN Append(w.events, [Type |-> type, Port |-> port])
    ELSE w.events

\* The child listens on a port: the observer reports PortOpened.
ChildBind(p) ==
    /\ w.child = "running"
    /\ p \notin w.ports
    /\ w' = [w EXCEPT !.ports = @ \cup {p}, !.events = WrapEmit("opened", p)]
    /\ UNCHANGED <<h, nonWrap>>

\* The child closes a port: the observer reports PortClosed.
ChildClose(p) ==
    /\ w.child = "running"
    /\ p \in w.ports
    /\ w' = [w EXCEPT !.ports = @ \ {p}, !.events = WrapEmit("closed", p)]
    /\ UNCHANGED <<h, nonWrap>>

\* The child exits: by itself, or killed when it hangs.
ChildExit ==
    /\ w.child = "running"
    /\ ~w.hung \/ w.killed
    /\ w' = [w EXCEPT !.child = "exited", !.ports = {}]
    /\ UNCHANGED <<h, nonWrap>>

\* A signal for wrap: signal.Notify on a channel of one, which drops what does
\* not fit.
SignalArrives ==
    /\ w.pc \notin {"off", "exited", "panicked"}
    /\ w.sigs = 0
    /\ w' = [w EXCEPT !.sigs = 1]
    /\ UNCHANGED <<h, nonWrap>>

\* The event goroutine, one event: a PortOpened for a port that is neither in
\* existingPorts nor in ourForwardedPorts sends a FORWARD.
WrapRecv ==
    /\ w.pc \notin {"off", "exited", "panicked"}
    /\ w.g = "recv"
    /\ w.events # <<>>
    /\ LET e == Head(w.events)
           go == e.Type = "opened" /\ e.Port \notin w.existingPorts
                    /\ e.Port \notin w.ourForwardedPorts
       IN  IF go /\ Reachable
           THEN /\ w' = [w EXCEPT !.events = Tail(@), !.g = "rpc", !.gport = e.Port]
                /\ h' = [h EXCEPT ![WrapEventSlot] =
                            ForwardArrives(Session, "localhost", e.Port, e.Port, "")]
           ELSE /\ w' = [w EXCEPT !.events = Tail(@)]
                /\ UNCHANGED h
    /\ UNCHANGED nonWrap

\* The event goroutine after sendRequest: a success is recorded.
WrapForwardReturn ==
    /\ w.pc \notin {"off", "exited", "panicked"}
    /\ w.g = "rpc"
    /\ h[WrapEventSlot].pc = "done"
    /\ w' = IF h[WrapEventSlot].ok
            THEN [w EXCEPT !.g = "recv", !.gport = 0,
                           !.ourForwardedPorts = @ \cup {w.gport},
                           !.okFwd = @ \cup {w.gport}]
            ELSE [w EXCEPT !.g = "recv", !.gport = 0]
    /\ UNCHANGED <<h, nonWrap>>

\* The range over the closed event channel ends.
WrapEventsClosed ==
    /\ w.pc \notin {"off", "exited", "panicked"}
    /\ w.g = "recv"
    /\ w.events = <<>>
    /\ w.closed
    /\ w' = [w EXCEPT !.g = "ended"]
    /\ UNCHANGED <<h, nonWrap>>

\* cancel() and the start of the loop over ourForwardedPorts.
ToCleanup(r) == [r EXCEPT !.pc = "unforward", !.closed = TRUE]

\* The goroutines that call Manager.Wait: the one wrap starts and the one
\* Manager.Stop starts.
Waiters == {"wrap", "stop"}

\* Manager.Wait in goroutine g once cmd.Wait has returned: close(m.done), which
\* panics on a channel that is closed already; the goroutine of wrap then
\* closes done.
ManagerWait(g) ==
    /\ w.pc \notin {"off", "exited", "panicked"}
    /\ g \in w.waiters
    /\ w.child = "exited"
    /\ w' = IF w.closes = 0
            THEN [w EXCEPT !.waiters = @ \ {g}, !.closes = 1, !.done = (g = "wrap")]
            ELSE [w EXCEPT !.waiters = @ \ {g}, !.closes = @ + 1, !.pc = "panicked"]
    /\ UNCHANGED <<h, nonWrap>>

\* The outer select, case <-done.
WrapChildDone ==
    /\ w.pc = "wait"
    /\ w.done
    /\ w' = ToCleanup(w)
    /\ UNCHANGED <<h, nonWrap>>

\* The outer select, case sig := <-sigChan: pm.Signal(sig).
WrapSignal ==
    /\ w.pc = "wait"
    /\ w.sigs > 0
    /\ w' = [w EXCEPT !.pc = "grace", !.sigs = 0, !.signalled = TRUE]
    /\ UNCHANGED <<h, nonWrap>>

\* The inner select, case <-done, and the <-done that follows pm.Stop.
WrapGraceDone ==
    /\ w.pc \in {"grace", "stopped"}
    /\ w.done
    /\ w' = ToCleanup(w)
    /\ UNCHANGED <<h, nonWrap>>

\* The inner select, case <-time.After: pm.Stop(context.Background()) sends
\* SIGTERM and starts a goroutine that calls m.Wait.
WrapGraceExpires ==
    /\ w.pc = "grace"
    /\ w.child = "running"
    /\ w' = [w EXCEPT !.pc = "stop", !.waiters = @ \cup {"stop"}, !.waits = @ + 1]
    /\ UNCHANGED <<h, nonWrap>>

\* ctx.Done() of a context: the background context is never done.
CtxDone(ctx) == ctx # "background"

\* Manager.Stop, its select: Kill when the context is done, else the error
\* that its goroutine sends after m.Wait.
WrapStopReturns ==
    /\ w.pc = "stop"
    /\ IF CtxDone("background") /\ w.child = "running"
       THEN w' = [w EXCEPT !.killed = TRUE]
       ELSE /\ "stop" \notin w.waiters
            /\ w' = [w EXCEPT !.pc = "stopped"]
    /\ UNCHANGED <<h, nonWrap>>

\* The loop over ourForwardedPorts, one port: an UNFORWARD is sent.
WrapUnforward ==
    /\ w.pc = "unforward"
    /\ Free(WrapMainSlot)
    /\ \E p \in w.ourForwardedPorts \ w.visited :
          /\ w' = [w EXCEPT !.visited = @ \cup {p}, !.sentUnf = @ \cup {p},
                            !.pc = IF Reachable THEN "unf_rpc" ELSE "unforward"]
          /\ IF Reachable
             THEN h' = [h EXCEPT ![WrapMainSlot] = UnforwardArrives(Session, "localhost", p)]
             ELSE UNCHANGED h
    /\ UNCHANGED nonWrap

\* sendRequest of the UNFORWARD has returned.
WrapUnforwardReturn ==
    /\ w.pc = "unf_rpc"
    /\ h[WrapMainSlot].pc = "done"
    /\ w' = [w EXCEPT !.pc = "unforward"]
    /\ UNCHANGED <<h, nonWrap>>

\* The loop has gone over the map.
WrapLoopEnds ==
    /\ w.pc = "unforward"
    /\ w.ourForwardedPorts \subseteq w.visited
    /\ w' = [w EXCEPT !.pc = "exiting"]
    /\ UNCHANGED <<h, nonWrap>>

\* os.Exit(exitCode): the event goroutine ends with the process.
WrapExit ==
    /\ w.pc = "exiting"
    /\ w' = [w EXCEPT !.pc = "exited"]
    /\ UNCHANGED <<h, nonWrap>>


Tick ==
    /\ s.pc # "exited"
    /\ now < MaxTime
    /\ now' = now + 1
    /\ UNCHANGED <<forwards, h, envVars, sVars>>

\* ------------------------------------------------------------------ specs
\* daemon.New: an empty registry, no handler; every connection is up.
InitD ==
    /\ forwards = [k \in {} |-> 0]
    /\ h = [i \in Handlers |-> IdleH]
    /\ alive = [c \in Connections |-> TRUE]
    /\ gen = [c \in Connections |-> 0]
    /\ sshFwds = [c \in Connections |-> {}]
    /\ staticActive = [c \in Connections |-> StaticSockets]
    /\ now = 0

\* The daemon with a supervisor that observes nothing.
Init == InitD /\ InitS /\ cfg.gracePeriod = 1

\* The steps of the handlers, whoever started them.
HandlerStep ==
    \/ \E i \in Handlers : AddForwardCheck(i)
    \/ \E i \in Handlers : AddForwardExec(i)
    \/ \E i \in Handlers : AddForwardStore(i)
    \/ \E i \in Handlers : RemoveForwardLookup(i)
    \/ \E i \in Handlers : RemoveForwardCancel(i)
    \/ \E i \in Handlers : RemoveForwardDelete(i)
    \/ \E i \in Handlers : RemoveForwardReestablish(i)

\* The steps of the handlers of FORWARD requests.
AddForwardSteps ==
    \/ \E i \in Handlers : AddForwardCheck(i)
    \/ \E i \in Handlers : AddForwardExec(i)
    \/ \E i \in Handlers : AddForwardStore(i)

\* Concurrent FORWARD and UNFORWARD RPCs of two clients, connections come and go.
NextD ==
    \/ \E i \in Clients, t \in Targets, host \in ReqHosts, lp \in {0}, sock \in {""} :
          Accepts(i) /\ HandleForwardCommand(i, t[1], host, t[2], lp, sock)
    \/ \E i \in Clients, t \in Targets, host \in ReqHosts :
          Accepts(i) /\ HandleUnforwardCommand(i, t[1], host, t[2])
    \/ HandlerStep
    \/ \E c \in Connections : ConnDown(c)
    \/ \E c \in Connections : ConnUp(c)

SpecD == Init /\ [][NextD]_vars

\* One client's RPCs against the daemon's own operations: restart with
\* auto-discovery, reconcile, cleanup.  The connection of the session comes
\* and goes, the other one stays.
NextM ==
    \/ \E t \in Targets, host \in ReqHosts, lp \in {0}, sock \in {""} :
          Serving /\ HandleForwardCommand(1, t[1], host, t[2], lp, sock)
    \/ \E t \in Targets, host \in ReqHosts :
          Serving /\ HandleUnforwardCommand(1, t[1], host, t[2])
    \/ HandlerStep
    \/ Serving /\ ReconcileSnapshot(Maint)
    \/ ReconcileResolve(Maint)
    \/ ReconcileExec(Maint)
    \/ ReconcileUpdate(Maint)
    \/ ReconcileRemove(Maint)
    \/ \E c \in Connections : Serving /\ CleanupForConnection(Maint, c)
    \/ \E c \in Connections, g \in 0..MaxGen :
          Serving /\ CleanupForSocket(Maint, SocketPathOf(c, g))
    \/ CleanupNext(Maint)
    \/ DaemonStart
    \/ RegisterExistingCheck(Maint)
    \/ RegisterExistingStore(Maint)
    \/ \E c \in {Session} : ConnDown(c)
    \/ \E c \in {Session} : ConnUp(c)

SpecM == Init /\ [][NextM]_vars

\* One reconcile sweep at a time from any registry the RPCs can have left,
\* nothing else running and no connection changing: entries of both ports on
\* both connections, masters running or not, each local port held by at most
\* one running master.
RegistryOf(ids) ==
    [k \in {Key(x[1], "localhost", x[2]) : x \in ids} |->
        LET x == CHOOSE y \in ids : Key(y[1], "localhost", y[2]) = k
        IN  [RemotePort |-> x[2], LocalPort |-> x[2], Host |-> "localhost",
             SocketPath |-> SocketPathOf(x[1], 0), ConnectionInfo |-> x[1],
             CreatedAt |-> 0]]

InitR ==
    /\ \E ids \in SUBSET (Connections \X Ports) : forwards = RegistryOf(ids)
    /\ h = [i \in Handlers |-> IdleH]
    /\ alive \in [Connections -> BOOLEAN]
    /\ gen \in [Connections -> 0..MaxGen]
    /\ sshFwds \in [Connections -> SUBSET Ports]
    /\ \A c \in Connections : ~alive[c] => sshFwds[c] = {}
    /\ \A c1, c2 \in Connections : c1 # c2 => sshFwds[c1] \cap sshFwds[c2] = {}
    /\ staticActive = [c \in Connections |-> IF alive[c] THEN StaticSockets ELSE {}]
    /\ now = 0
    /\ InitS /\ cfg.gracePeriod = 1

NextR ==
    \/ ReconcileSnapshot(Maint)
    \/ ReconcileResolve(Maint)
    \/ ReconcileExec(Maint)
    \/ ReconcileUpdate(Maint)
    \/ ReconcileRemove(Maint)

SpecR == InitR /\ [][NextR]_vars

\* A sweep on its own, some time after the entries were created.
InitG ==
    /\ \E ids \in SUBSET (Connections \X Ports) : forwards = RegistryOf(ids)
    /\ h = [i \in Handlers |-> IdleH]
    /\ alive \in [Connections -> BOOLEAN]
    /\ gen \in [Connections -> 0..MaxGen]
    /\ sshFwds \in [Connections -> SUBSET Ports]
    /\ \A c \in Connections : ~alive[c] => sshFwds[c] = {}
    /\ \A c1, c2 \in Connections : c1 # c2 => sshFwds[c1] \cap sshFwds[c2] = {}
    /\ staticActive = [c \in Connections |-> IF alive[c] THEN StaticSockets ELSE {}]
    /\ now = 1
    /\ InitS /\ cfg.gracePeriod = 1

SpecG == InitG /\ [][NextR]_vars

\* The supervisor of one session with the daemon's handler of its RPCs: ports
\* open and close on the remote host, time passes, the session ends.
InitSup == InitD /\ InitS

NextS ==
    \/ \E p \in VmPorts : Bind(p)
    \/ \E p \in VmPorts : Close(p)
    \/ HandlePortEvent
    \/ RequestForwardReturn
    \/ CleanupPendingRemovals
    \/ CollectNext
    \/ CollectReturn
    \/ Cancel
    \/ SessionCleanup
    \/ SessionCleanupNext
    \/ SessionCleanupReturn
    \/ Tick
    \/ HandlerStep

SpecS == InitSup /\ [][NextS]_vars

\* One cleanup at a time, by connection or by control socket, from any
\* registry the RPCs can have left; nothing else runs.
NextQ ==
    \/ \E c \in Connections : CleanupForConnection(Maint, c)
    \/ \E c \in Connections, g \in 0..MaxGen : CleanupForSocket(Maint, SocketPathOf(c, g))
    \/ CleanupNext(Maint)
    \/ RemoveForwardLookup(Maint)
    \/ RemoveForwardCancel(Maint)
    \/ RemoveForwardDelete(Maint)
    \/ RemoveForwardReestablish(Maint)

SpecQ == InitR /\ [][NextQ]_vars

\* The wrap command for the session's connection: another client may have
\* forwarded ports before it starts, the child binds and closes ports, signals
\* arrive, the connection comes and goes.
NextW ==
    \/ \E p \in Ports : w.pc = "off" /\ HandleForwardCommand(WrapMainSlot, Session, "localhost", p, 0, "")
    \/ WrapStart
    \/ \E p \in Ports : ChildBind(p)
    \/ \E p \in Ports : ChildClose(p)
    \/ ChildExit
    \/ SignalArrives
    \/ WrapRecv
    \/ WrapForwardReturn
    \/ WrapEventsClosed
    \/ \E g \in Waiters : ManagerWait(g)
    \/ WrapChildDone
    \/ WrapSignal
    \/ WrapGraceDone
    \/ WrapGraceExpires
    \/ WrapStopReturns
    \/ WrapUnforward
    \/ WrapUnforwardReturn
    \/ WrapLoopEnds
    \/ WrapExit
    \/ HandlerStep
    \/ \E c \in {Session} : ConnDown(c)
    \/ \E c \in {Session} : ConnUp(c)

SpecW == Init /\ [][NextW]_vars

\* The wrap command with one port and a connection that stays up.  The
\* goroutines of wrap and the handlers of the daemon keep running, and a child
\* that does not hang exits once it is signalled.
NextX ==
    \/ WrapStart
    \/ \E p \in {3000} : ChildBind(p)
    \/ ChildExit
    \/ SignalArrives
    \/ WrapRecv
    \/ WrapForwardReturn
    \/ WrapEventsClosed
    \/ \E g \in Waiters : ManagerWait(g)
    \/ WrapChildDone
    \/ WrapSignal
    \/ WrapGraceDone
    \/ WrapGraceExpires
    \/ WrapStopReturns
    \/ WrapUnforward
    \/ WrapUnforwardReturn
    \/ WrapLoopEnds
    \/ WrapExit
    \/ HandlerStep

FairX ==
    /\ WF_vars(HandlerStep)
    /\ WF_vars(ChildExit /\ (w.signalled \/ w.killed))
    /\ \A g \in Waiters : WF_vars(ManagerWait(g))
    /\ WF_vars(WrapChildDone)
    /\ WF_vars(WrapSignal)
    /\ WF_vars(WrapGraceDone)
    /\ WF_vars(WrapGraceExpires)
    /\ WF_vars(WrapStopReturns)
    /\ WF_vars(WrapUnforward)
    /\ WF_vars(WrapUnforwardReturn)
    /\ WF_vars(WrapLoopEnds)
    /\ WF_vars(WrapExit)

SpecX == Init /\ [][NextX]_vars /\ FairX

\* SessionMonitor.Start with either observer: ports listen before the observer
\* starts; the event handler runs once Start of the observer has returned.
InitO ==
    /\ InitD
    /\ cfg = [portRanges |-> <<>>, ignorePorts |-> {}, gracePeriod |-> 1]
    /\ activeForwards = {}
    /\ pendingRemovals = [p \in {} |-> 0]
    /\ events = <<>>
    /\ vmSockets \in [VmPorts -> {0, 1}]
    /\ s = IdleS
    /\ cancelled = FALSE
    /\ lastOpened = [p \in VmPorts |-> -1]
    /\ issuedSince = {}
    /\ okSince = {}
    /\ bindAddr = [p \in VmPorts |-> "0.0.0.0"]
    /\ InitMon
    /\ InitPolicy
    /\ InitRun
    /\ w = IdleW
    /\ sysmon = NewSystemMonitor
    /\ o \in {[StartedO EXCEPT !.pc = "off", !.backend = b] : b \in Backends}

NextO ==
    \/ EbpfStart
    \/ BurstSend
    \/ EbpfStartReturns
    \/ PollStart
    \/ \E p \in VmPorts : o.pc = "running" /\ Bind(p)
    \/ \E p \in VmPorts : o.pc = "running" /\ Close(p)
    \/ o.pc = "running" /\ HandlePortEvent
    \/ o.pc = "running" /\ RequestForwardReturn
    \/ o.pc = "running" /\ HandlerStep

SpecO == InitO /\ [][NextO]_vars

\* The polling observer after its Start, with the event handler of the
\* supervisor as the reader of its channel; the policy accepts no port of the
\* remote host, so the handler sends nothing to the daemon.
InitP ==
    /\ InitD
    /\ cfg = [portRanges |-> <<>>, ignorePorts |-> {3000}, gracePeriod |-> 1]
    /\ activeForwards = {}
    /\ pendingRemovals = [p \in {} |-> 0]
    /\ events = <<>>
    /\ vmSockets \in [VmPorts -> {0, 1}]
    /\ s = IdleS
    /\ cancelled = FALSE
    /\ lastOpened = [p \in VmPorts |-> -1]
    /\ issuedSince = {}
    /\ okSince = {}
    /\ bindAddr = [p \in VmPorts |-> "0.0.0.0"]
    /\ InitMon
    /\ InitPolicy
    /\ InitRun
    /\ w = IdleW
    /\ o = [StartedO EXCEPT !.backend = "poll", !.initial = InitialPorts]
    /\ sysmon = [NewSystemMonitor EXCEPT
                    !.knownPorts = InitialPorts,
                    !.seen = [p \in VmPorts |-> IF p \in InitialPorts THEN 0 ELSE -1]]

NextP ==
    \/ \E p \in VmPorts : PortBinds(p)
    \/ \E p \in VmPorts : PortCloses(p)
    \/ CheckPorts
    \/ DebounceTicks
    \/ ProcessPendingPorts
    \/ MonitorLoopDone
    \/ DebounceDone
    \/ Tick
    \/ Cancel
    \/ HandlePortEvent

SpecP == InitP /\ [][NextP]_vars

\* ForwardRequest.SocketPath: left out, or a path that the client names.
NamedSockets == {"/tmp/elsewhere"}

SockArgs == {""} \cup NamedSockets

\* One client's FORWARDs, with and without a socket path of its own, and its
\* UNFORWARDs; the session's connection comes and goes.
NextA ==
    \/ \E t \in Targets, host \in ReqHosts, lp \in {0}, sock \in SockArgs :
          HandleForwardCommand(1, t[1], host, t[2], lp, sock)
    \/ \E t \in Targets, host \in ReqHosts : HandleUnforwardCommand(1, t[1], host, t[2])
    \/ HandlerStep
    \/ \E c \in {Session} : ConnDown(c)
    \/ \E c \in {Session} : ConnUp(c)

SpecA == Init /\ [][NextA]_vars

\* The daemon serves clients that connect and send a FORWARD, hang up or stay
\* silent, and is shut down.  The goroutines of the daemon keep running; a
\* client owes the daemon nothing.
NextT ==
    \/ \E i \in Clients : ClientConnects(i)
    \/ \E i \in Clients, t \in Targets : ClientSendsForward(i, t[1], t[2])
    \/ \E i \in Clients : ClientHangsUp(i)
    \/ AddForwardSteps
    \/ Shutdown
    \/ ShutdownReturns

FairT == WF_vars(AddForwardSteps) /\ WF_vars(ShutdownReturns)

SpecT == Init /\ [][NextT]_vars /\ FairT

\* The supervisor's event handler for the one port that the policy accepts,
\* while the session's connection, and with it the way to the daemon, comes
\* and goes.
NextE ==
    \/ \E p \in {3000} : Bind(p)
    \/ \E p \in {3000} : Close(p)
    \/ HandlePortEvent
    \/ RequestForwardReturn
    \/ AddForwardSteps
    \/ \E c \in {Session} : ConnDown(c)
    \/ \E c \in {Session} : ConnUp(c)

SpecE == Init /\ [][NextE]_vars

\* The request types of the reconcile command of the CLI and of the clients
\* of forwards, sent by one client; the session's connection comes and goes.
NextK ==
    \/ \E t \in Targets, host \in ReqHosts, lp \in {0}, sock \in {""} :
          HandleForwardCommand(1, t[1], host, t[2], lp, sock)
    \/ \E t \in Targets, host \in ReqHosts : HandleUnforwardCommand(1, t[1], host, t[2])
    \/ \E type \in {"RECONCILE"} : HandleUnknownCommand(1, type)
    \/ HandlerStep
    \/ \E c \in {Session} : ConnDown(c)
    \/ \E c \in {Session} : ConnUp(c)

SpecK == Init /\ [][NextK]_vars

\* A daemon starts: anything may be at its socket address, the masters of the
\* connections run or not and hold forwards of their own.  Once it listens it
\* discovers these forwards.
InitU ==
    /\ forwards = [k \in {} |-> 0]
    /\ h = [i \in Handlers |-> IdleH]
    /\ alive \in [Connections -> BOOLEAN]
    /\ gen = [c \in Connections |-> 0]
    /\ sshFwds \in [Connections -> SUBSET Ports]
    /\ \A c \in Connections : ~alive[c] => sshFwds[c] = {}
    /\ \A c1, c2 \in Connections : c1 # c2 => sshFwds[c1] \cap sshFwds[c2] = {}
    /\ staticActive = [c \in Connections |-> IF alive[c] THEN StaticSockets ELSE {}]
    /\ now = 0
    /\ cfg = [portRanges |-> <<>>, ignorePorts |-> {}, gracePeriod |-> 1]
    /\ InitMaps
    /\ bindAddr = [p \in VmPorts |-> "0.0.0.0"]
    /\ InitMon
    /\ InitPolicy
    /\ sockFile \in SockFiles
    /\ run = [pc |-> "check", saw |-> "absent"]

NextU ==
    \/ CheckExistingDaemon
    \/ RemoveSocket
    \/ Listen
    \/ RegisterExistingCheck(Maint)
    \/ RegisterExistingStore(Maint)

SpecU == InitU /\ [][NextU]_vars

\* The same with the scheduling the Go runtime gives: the clock advances, a
\* goroutine that can run does, the ticker of cleanupLoop gets the mutex in
\* the end (a starved sync.Mutex waiter is handed the lock).
FairS ==
    /\ WF_vars(Tick)
    /\ WF_vars(HandlerStep)
    /\ WF_vars(RequestForwardReturn)
    /\ SF_vars(CleanupPendingRemovals)
    /\ WF_vars(CollectNext)
    /\ WF_vars(CollectReturn)
    /\ SF_vars(SessionCleanup)
    /\ WF_vars(SessionCleanupNext)
    /\ WF_vars(SessionCleanupReturn)

\* Under it only the ports that the default policy accepts open and close.
NextL ==
    \/ \E p \in {q \in VmPorts : ShouldForwardPort(q, <<>>, {})} : Bind(p)
    \/ \E p \in {q \in VmPorts : ShouldForwardPort(q, <<>>, {})} : Close(p)
    \/ HandlePortEvent
    \/ RequestForwardReturn
    \/ CleanupPendingRemovals
    \/ CollectNext
    \/ CollectReturn
    \/ Cancel
    \/ SessionCleanup
    \/ SessionCleanupNext
    \/ SessionCleanupReturn
    \/ Tick
    \/ HandlerStep

SpecL == Init /\ [][NextL]_vars /\ FairS

\* The supervisor where the listeners of port 3000 may be bound to any address.
InitB ==
    /\ InitD
    /\ cfg = [portRanges |-> <<>>, ignorePorts |-> {}, gracePeriod |-> 1]
    /\ InitMaps
    /\ bindAddr \in [VmPorts -> BindAddrs]
    /\ bindAddr[80] = "0.0.0.0"
    /\ bindAddr[3000] \in {"0.0.0.0", "100.64.0.5"}
    /\ InitMon
    /\ InitPolicy
    /\ InitRun

SpecB == InitB /\ [][NextS]_vars

\* One Reconcile of the Monitor on its own, from any registry and any set of
\* listening ports: each port is registered for at most one connection, whose
\* master listens on it; ports 80 and 3000 may listen on the remote host, port
\* 3000 on the wildcard address or on a VPN address only.
ListPorts == VmPorts \cup Ports

InitV ==
    /\ \E owner \in [ListPorts -> Connections \cup {""}] :
          /\ forwards = RegistryOf({x \in Connections \X ListPorts : owner[x[2]] = x[1]})
          /\ sshFwds = [c \in Connections |-> {p \in ListPorts : owner[p] = c}]
    /\ h = [i \in Handlers |-> IdleH]
    /\ alive = [c \in Connections |-> TRUE]
    /\ gen = [c \in Connections |-> 0]
    /\ staticActive = [c \in Connections |-> StaticSockets]
    /\ now = 0
    /\ cfg \in [portRanges : {<<>>, <<[Start |-> 80, End |-> 80]>>},
                ignorePorts : {{}}, gracePeriod : {1}]
    /\ activeForwards = {}
    /\ pendingRemovals = [p \in {} |-> 0]
    /\ events = <<>>
    /\ vmSockets \in [VmPorts -> {0, 1}]
    /\ s = IdleS
    /\ cancelled = FALSE
    /\ lastOpened = [p \in VmPorts |-> -1]
    /\ issuedSince = {}
    /\ okSince = {}
    /\ bindAddr \in [VmPorts -> {"0.0.0.0", "100.64.0.5"}]
    /\ bindAddr[80] = "0.0.0.0"
    /\ socketReachable = FALSE
    /\ m = [IdleM EXCEPT !.pc = "rc_list"]
    /\ InitOff
    /\ InitPolicy
    /\ InitRun

NextV ==
    \/ MonitorReconcileStep
    \/ HandlerStep

SpecV == InitV /\ [][NextV]_vars

\* The heartbeat of the Monitor with its Reconcile: the session's connection
\* comes and goes, ports open and close on the remote host; no event is handled.
NextH ==
    \/ ProbeSend
    \/ ProbeDecide
    \/ MonitorReconcileStep
    \/ HandlerStep
    \/ \E c \in {Session} : ConnDown(c)
    \/ \E c \in {Session} : ConnUp(c)
    \/ \E p \in VmPorts : Bind(p)
    \/ \E p \in VmPorts : Close(p)

SpecH == Init /\ [][NextH]_vars

\* The supervisor's event handling and grace collector next to the heartbeat
\* and its Reconcile, for the one port that the policy accepts.
NextC ==
    \/ \E p \in {3000} : Bind(p)
    \/ \E p \in {3000} : Close(p)
    \/ HandlePortEvent
    \/ RequestForwardReturn
    \/ CleanupPendingRemovals
    \/ CollectNext
    \/ CollectReturn
    \/ Tick
    \/ HandlerStep
    \/ ProbeSend
    \/ ProbeDecide
    \/ MonitorReconcileStep

SpecC == Init /\ [][NextC]_vars

\* The policy on its own: one call for each port, bind address and configuration.
PolicyPorts == {22, 1023, 1024, 2999, 3000, 5000, 8080, 9999, 10000, 37593}

PolicyRanges == {<<>>, <<[Start |-> 3000, End |-> 9999]>>,
                 <<[Start |-> 3000, End |-> 3000], [Start |-> 8080, End |-> 9999]>>,
                 <<[Start |-> 1, End |-> 1023]>>}

PolicyIgnores == SUBSET {22, 8080}

\* handlePortEvent, the call m.shouldForwardPort(event.Port): the port of the
\* event and the session's configuration are all the policy is given.
CallPolicy ==
    /\ policyOut = "unset"
    /\ policyIn # NoCall
    /\ policyOut' = IF ShouldForwardPort(policyIn.port, policyIn.portRanges,
                                         policyIn.ignorePorts)
                    THEN "accept" ELSE "reject"
    /\ UNCHANGED <<forwards, h, envVars, now, cfg, activeForwards, pendingRemovals,
                   events, vmSockets, s, cancelled, lastOpened, issuedSince, okSince,
                   socketReachable, m, bindAddr, policyIn, sockFile, run, w, o, sysmon>>

InitF ==
    /\ InitD
    /\ cfg = [portRanges |-> <<>>, ignorePorts |-> {}, gracePeriod |-> 1]
    /\ InitMaps
    /\ bindAddr = [p \in VmPorts |-> "0.0.0.0"]
    /\ InitMon
    /\ policyIn \in [port : PolicyPorts, bindAddr : BindAddrs,
                     portRanges : PolicyRanges, ignorePorts : PolicyIgnores]
    /\ policyOut = "unset"
    /\ InitRun

NextF == CallPolicy

SpecF == InitF /\ [][NextF]_vars

\* ----------------------------------------------------------- properties
\* Handler i answers its RPC in this step.
Answers(i, op) == h[i].op = op /\ h[i].pc \notin {"idle", "done"} /\ h'[i].pc = "done"

\* C1: the registry holds at most one Forward per identity (connection, host,
\* remote port), each under the key of its own identity, whatever FORWARD,
\* UNFORWARD, auto-discovery, reconcile and cleanup interleave; and identities
\* that differ only in the connection are separate entries: a FORWARD that
\* answers ok leaves an entry of exactly its own identity.
C1_OneForwardPerIdentity ==
    /\ [](\A k1, k2 \in DOMAIN forwards :
             Ident(forwards[k1]) = Ident(forwards[k2]) => k1 = k2)
    /\ [](\A k \in DOMAIN forwards :
             k = Key(forwards[k].ConnectionInfo, forwards[k].Host, forwards[k].RemotePort))
    /\ [][\A i \in Handlers :
             (Answers(i, "FORWARD") /\ h'[i].ok)
             => \E k \in DOMAIN forwards' :
                   Ident(forwards'[k]) = <<h[i].conn, h[i].host, h[i].rport>>]_vars

\* Two connections forward the same host and port, as two entries.
C1_Witness ==
    /\ Key("vm1", "localhost", 3000) \in DOMAIN forwards
    /\ Key("vm2", "localhost", 3000) \in DOMAIN forwards
    /\ h[Maint].op = "RECONCILE"

\* C2: a FORWARD that arrives for a registered identity answers ok and leaves
\* the registry as it is, whatever the state of the SSH connection.
C2_RepeatedForwardSucceeds ==
    [][\A i \in Handlers :
          /\ (Free(i) /\ h'[i].op = "FORWARD" /\ h'[i] # h[i]
                /\ h'[i].key \in DOMAIN forwards /\ h'[i].pc = "done")
             => h'[i].ok
          /\ (h[i].pc = "add_check" /\ h[i].key \in DOMAIN forwards /\ h'[i] # h[i])
             => (h'[i].pc = "done" /\ h'[i].ok /\ forwards' = forwards)]_vars

\* C3: an UNFORWARD of an identity that is not registered answers "forward not
\* found", runs no ssh command and changes no entry; the state it leaves is the
\* state it found, so a repetition answers the same.
C3_UnforwardUnknown ==
    [][\A i \in Handlers :
          (h[i].op = "UNFORWARD" /\ h[i].pc = "rm_lookup" /\ h'[i] # h[i]
             /\ h[i].key \notin DOMAIN forwards)
          => /\ h'[i].pc = "done" /\ ~h'[i].ok
             /\ h'[i].err = "forward not found: " \o h[i].key
             /\ forwards' = forwards
             /\ <<alive, gen, sshFwds, staticActive>>' = <<alive, gen, sshFwds, staticActive>>]_vars

\* An UNFORWARD was answered not-found while another entry is registered.
C3_Witness ==
    \E i \in Handlers :
        /\ h[i].pc = "done" /\ h[i].op = "UNFORWARD" /\ ~h[i].ok
        /\ h[i].err = "forward not found: " \o h[i].key
        /\ DOMAIN forwards # {}

\* C4: an UNFORWARD of a registered identity removes the entry and answers ok,
\* whether or not ssh -O cancel succeeded.
C4_UnforwardRegistered ==
    [][\A i \in Handlers :
          /\ (h[i].op = "UNFORWARD" /\ h[i].pc = "rm_delete" /\ h'[i] # h[i])
             => h[i].key \notin DOMAIN forwards'
          /\ (h[i].op = "UNFORWARD" /\ h[i].pc \in {"rm_cancel", "rm_delete", "rm_reest"}
                /\ h'[i].pc = "done")
             => h'[i].ok]_vars

\* An UNFORWARD answered ok after a failed cancel, the entry gone.
C4_Witness ==
    \E i \in Handlers :
        /\ h[i].pc = "done" /\ h[i].op = "UNFORWARD" /\ h[i].ok /\ ~h[i].cancelOk
        /\ h[i].key \notin DOMAIN forwards

\* C5 as stated: when an UNFORWARD of a registered identity completes, the
\* active static socket remote-forwards of its connection are the ones that
\* were active when it began.
C5_StaticSocketsAsBefore ==
    [][\A i \in Handlers :
          (h[i].op = "UNFORWARD" /\ h[i].pc = "rm_reest" /\ h'[i].pc = "done")
          => staticActive'[h[i].conn] = h[i].staticBefore]_vars

\* C5: when an UNFORWARD of a registered identity completes on a connection
\* whose master runs, every static socket remote-forward of the ssh config is
\* active, those active before among them.
C5_StaticSocketsRestored ==
    [][\A i \in Handlers :
          (h[i].op = "UNFORWARD" /\ h[i].pc = "rm_reest" /\ h'[i].pc = "done"
             /\ alive[h[i].conn])
          => /\ staticActive'[h[i].conn] = StaticSockets
             /\ h[i].staticBefore \subseteq staticActive'[h[i].conn]]_vars

\* An UNFORWARD whose cancel ran on the master has completed, the static
\* sockets are active.
C5_Witness ==
    \E i \in Handlers :
        /\ h[i].pc = "done" /\ h[i].op = "UNFORWARD" /\ h[i].ok /\ h[i].cancelOk
        /\ alive[h[i].conn] /\ staticActive[h[i].conn] = StaticSockets

\* Listening, in the state after the step.
ListeningAfter(lp) == \E c \in Connections : alive'[c] /\ lp \in sshFwds'[c]

\* The sweep of handler i returns in this step.
SweepEnds(i) == h'[i].op = "RECONCILE" /\ h'[i].pc = "done" /\ h'[i] # h[i]

\* C6 as stated: when a sweep returns, the local port of every entry left in
\* the registry listens.
C6_AllRemainingListen ==
    [][SweepEnds(Maint)
       => \A k \in DOMAIN forwards' : ListeningAfter(forwards'[k].LocalPort)]_vars

\* C6: when a sweep returns (nothing else running, no connection changing),
\* every entry left in the registry has a listening local port or belongs to a
\* running connection whose re-establish failed and is retried next sweep;
\* the entries removed are non-listening ones of connections that do not run.
C6_SweepResult ==
    [][SweepEnds(Maint)
       => /\ \A k \in DOMAIN forwards' :
                ListeningAfter(forwards'[k].LocalPort) \/ alive'[forwards'[k].ConnectionInfo]
          /\ \A k \in DOMAIN forwards \ DOMAIN forwards' :
                ~alive[forwards[k].ConnectionInfo]]_vars

\* A sweep has returned: one entry was re-established, one is kept without a
\* listener on a running connection, and a connection is down.
C6_Witness ==
    /\ h[Maint].op = "RECONCILE" /\ h[Maint].pc = "done"
    /\ \E k \in DOMAIN forwards :
          /\ ~Listening(forwards[k].LocalPort)
          /\ alive[forwards[k].ConnectionInfo]
    /\ \E k \in DOMAIN forwards :
          /\ forwards[k].SocketPath # SocketPathOf(forwards[k].ConnectionInfo, 0)
          /\ Listening(forwards[k].LocalPort)
    /\ \E c \in Connections : ~alive[c] /\ \A k \in DOMAIN forwards : forwards[k].ConnectionInfo # c

\* The event handler sends FORWARD for port p in this step.
IssuesForward(p) == s.pc = "idle" /\ s'.pc = "ev_fwd" /\ s'.port = p

\* The grace collector sends UNFORWARD for port p in this step.
CollectorUnforwards(p) == s.pc = "gc" /\ s'.pc = "gc_rpc" /\ s'.port = p

\* The supervisor sends UNFORWARD for port p in this step.
IssuesUnforward(p) == s.pc \in {"gc", "cl"} /\ s'.pc \in {"gc_rpc", "cl_rpc"} /\ s'.port = p

\* The event handler takes an event of this type for port p in this step.
Handles(type, p) ==
    /\ s.pc = "idle" /\ events # <<>> /\ events' = Tail(events)
    /\ Head(events).Type = type /\ Head(events).Port = p

\* C7: the collector removes a forward marked pending-removal at time t no
\* earlier than t + grace_period, and only when the port does not listen at
\* that moment.
C7_RemovalAfterGraceNotListening ==
    [][\A p \in VmPorts :
          (CollectorUnforwards(p) /\ p \in DOMAIN pendingRemovals)
          => /\ now - pendingRemovals[p] >= cfg.gracePeriod
             /\ vmSockets[p] = 0]_vars

\* C8 as stated: no UNFORWARD, of the collector or of the shutdown, goes out
\* for a port less than grace_period after its most recent OPENED.
C8_NoUnforwardWithinGrace ==
    [][\A p \in VmPorts :
          IssuesUnforward(p)
          => lastOpened[p] >= 0 /\ now - lastOpened[p] >= cfg.gracePeriod]_vars

\* C8: the grace collector sends no UNFORWARD for a port less than
\* grace_period after the most recent OPENED the event handler took for it,
\* nor less than grace_period after the mark of its pending removal.
C8_CollectorKeepsGrace ==
    [][\A p \in VmPorts :
          CollectorUnforwards(p)
          => /\ lastOpened[p] >= 0 /\ now - lastOpened[p] >= cfg.gracePeriod
             /\ p \in DOMAIN pendingRemovals
             /\ now - pendingRemovals[p] >= cfg.gracePeriod]_vars

\* The collector has sent an UNFORWARD under the longest grace period.
C8_Witness ==
    /\ s.pc = "gc_rpc" /\ s.sent
    /\ cfg.gracePeriod = MaxGrace
    /\ lastOpened[s.port] >= 0

\* C9 as stated: the event handler sends FORWARD for p exactly at the OPENED
\* events for p that find p neither tracked nor pending removal.
C9_ForwardIffUntracked ==
    [][\A p \in VmPorts :
          IssuesForward(p)
          <=> (Handles("opened", p) /\ p \notin activeForwards
                 /\ p \notin DOMAIN pendingRemovals)]_vars

\* C9: the event handler sends FORWARD for p exactly at the OPENED events for
\* p, a port that passes the policy, that find p pending removal or not
\* tracked: as many FORWARD RPCs as such events.
C9_ForwardIffPendingOrUntracked ==
    [][\A p \in VmPorts :
          IssuesForward(p)
          <=> (Handles("opened", p)
                 /\ ShouldForwardPort(p, cfg.portRanges, cfg.ignorePorts)
                 /\ (p \in DOMAIN pendingRemovals \/ p \notin activeForwards))]_vars

\* A FORWARD is on its way for a port that is tracked: it was pending removal.
C9_Witness ==
    /\ s.pc = "ev_fwd" /\ s.sent
    /\ s.port \in activeForwards
    /\ vmSockets[80] > 0 /\ lastOpened[80] = -1

Accepted == policyOut = "accept"

InSomeRange(port, portRanges) ==
    \E n \in 1..Len(portRanges) :
        portRanges[n].Start <= port /\ port <= portRanges[n].End

\* C11: the supervisor issues FORWARD only for a port and bind address that
\* the policy accepts, so never for a port bound only to a non-local address.
C11_ForwardOnlyIfPolicyAccepts ==
    [][\A p \in VmPorts :
          IssuesForward(p) =>
              /\ ShouldForwardPort(p, cfg.portRanges, cfg.ignorePorts)
              /\ IsLocalAddr(bindAddr[p])]_vars

\* C17: an ignored port is rejected whatever the ranges say; with ranges a
\* port is accepted iff some range holds it, bounds included; without ranges
\* iff it is at least 1024.
C17_PolicyByPortNumber ==
    policyOut # "unset" =>
        LET port == policyIn.port
        IN  IF port \in policyIn.ignorePorts THEN ~Accepted
            ELSE IF policyIn.portRanges # <<>>
                 THEN Accepted <=> InSomeRange(port, policyIn.portRanges)
                 ELSE Accepted <=> port >= 1024

\* An ignored port inside a configured range has been rejected.
C17_Witness ==
    /\ policyOut = "reject"
    /\ policyIn.port \in policyIn.ignorePorts
    /\ InSomeRange(policyIn.port, policyIn.portRanges)

\* C18: the policy accepts a port only if it is bound to a wildcard or
\* loopback address.
C18_AcceptsOnlyLocalBind ==
    Accepted => IsLocalAddr(policyIn.bindAddr)

\* C12: in every reachable state each port of the supervisor's active-forward
\* map has an entry in the daemon's registry under (session, "localhost", port).
C12_ActiveForwardsRegistered ==
    \A p \in activeForwards : Key(Session, "localhost", p) \in DOMAIN forwards

\* C13: a CLOSED event for a forwarded port that still listens when the event
\* is handled is dropped: the port is not marked pending-removal, it stays
\* forwarded and the event starts no RPC, so no UNFORWARD comes of it.
C13_StaleClosedDropped ==
    [][\A p \in VmPorts :
          Handles("closed", p) /\ p \in activeForwards /\ vmSockets[p] > 0
          => /\ pendingRemovals' = pendingRemovals
             /\ activeForwards' = activeForwards
             /\ s' = s /\ h' = h]_vars

\* A CLOSED for port 3000 was handled after its FORWARD succeeded; the port
\* listens, is tracked and is not pending removal.
C13_Witness ==
    /\ 3000 \in activeForwards /\ 3000 \notin okSince
    /\ 3000 \notin DOMAIN pendingRemovals
    /\ vmSockets[3000] > 0
    /\ s.pc = "idle" /\ events = <<>>

\* Port p is marked pending-removal and its grace period is not over.
InGrace(p) ==
    p \in DOMAIN pendingRemovals /\ now - pendingRemovals[p] < cfg.gracePeriod

\* Port p is marked pending-removal and its grace period is over.
Due(p) ==
    p \in DOMAIN pendingRemovals /\ now - pendingRemovals[p] >= cfg.gracePeriod

\* Port p carries the pending-removal mark of time t.
MarkedAt(p, t) == p \in DOMAIN pendingRemovals /\ pendingRemovals[p] = t

\* The ports of the remote host that the default policy accepts.
DefaultForwardable == {p \in VmPorts : ShouldForwardPort(p, <<>>, {})}

\* The mark of port p goes away in this step.
Unmarked(p) == p \in DOMAIN pendingRemovals /\ p \notin DOMAIN pendingRemovals'

\* The collector's tick takes the mutex in this step.
CollectorTicks == s.pc = "idle" /\ s'.pc = "gc"

\* C14 as stated: while a forwarded port is marked pending-removal and its
\* grace period is not over, the supervisor does nothing about it.
C14_NoActionWithinGrace ==
    [][\A p \in VmPorts :
          InGrace(p) /\ ~Handles("opened", p)
          => ~IssuesUnforward(p) /\ ~Unmarked(p)]_vars

\* C14: a forwarded port marked pending-removal, with no OPENED handled for
\* it: event handler and collector leave it alone while its grace period
\* runs; a collector tick at or after the end takes it, sends UNFORWARD and
\* drops it from both maps; and a mark whose grace period ends within the
\* clock's range does go away or is renewed by another CLOSED.
C14_CollectedAfterGrace ==
    /\ [][\A p \in VmPorts :
             /\ InGrace(p) /\ ~Handles("opened", p) /\ ~cancelled
                => ~IssuesUnforward(p) /\ ~Unmarked(p)
             /\ CollectorTicks /\ Due(p) => p \in s'.todo
             /\ s.pc = "gc" /\ p \in s.todo /\ s'.todo # s.todo /\ p \in activeForwards
                => \E q \in s.todo : CollectorUnforwards(q)
             /\ Unmarked(p) /\ ~Handles("opened", p)
                => /\ p \notin activeForwards'
                   /\ s.pc \in {"gc", "gc_rpc", "cl"}]_vars
    /\ \A p \in DefaultForwardable, t \in 0..MaxTime :
          (MarkedAt(p, t) /\ t + cfg.gracePeriod <= MaxTime) ~> ~MarkedAt(p, t)

\* The collector has sent UNFORWARD for a port whose mark is one grace period
\* old, and the port does not listen.
C14_Witness ==
    /\ s.pc = "gc_rpc" /\ s.sent
    /\ s.port \in DOMAIN pendingRemovals
    /\ now - pendingRemovals[s.port] = cfg.gracePeriod
    /\ vmSockets[s.port] = 0

\* C15: the heartbeat starts a reconcile after exactly those probes that
\* succeed when the probe before failed, no probe counting as a failed one;
\* a probe that succeeds after a successful one starts none.
C15_ReconcileOnReconnect ==
    [][m.pc = "probed" /\ m'.pc # "probed"
       => (m'.pc = "rc_list" <=> (m.last /\ ~m.prev))]_vars

\* A reconcile starts although an earlier one has registered a forward: the
\* socket was lost and found again in between.
C15_Witness ==
    /\ m.pc = "rc_list"
    /\ m.last /\ ~m.prev
    /\ gen[Session] > 0
    /\ Key(Session, "localhost", 3000) \in DOMAIN forwards

\* The daemon's forwards of this session, by remote port.
DaemonList ==
    {p \in ListPorts : \E k \in DOMAIN forwards :
        forwards[k].ConnectionInfo = Session /\ forwards[k].RemotePort = p}

\* The Reconcile of the Monitor has sent its last request.
MonitorReconcileDone == m.pc = "rc_unf" /\ m.toUnforward = {}

\* C16: one reconcile of the supervisor reads the daemon's list for the
\* session, sends FORWARD for exactly the listening ports that pass the policy
\* filter, port rules and local bind address, and are not in the list, and
\* UNFORWARD for exactly the listed ports that do not listen at all: a listed
\* port that listens is left alone, in or out of the configured ranges.
C16_ReconcilePlan ==
    /\ m.pc = "rc_plan" => m.daemonForwards = DaemonList
    /\ MonitorReconcileDone =>
          /\ m.fwdSent = {p \in VmPorts :
                             /\ vmSockets[p] > 0
                             /\ ShouldForwardPort(p, cfg.portRanges, cfg.ignorePorts)
                             /\ IsLocalAddr(bindAddr[p])
                             /\ p \notin m.daemonForwards}
          /\ m.unfSent = {p \in m.daemonForwards : p \notin VmPorts \/ vmSockets[p] = 0}

\* C19: the daemon accepts the RECONCILE request type: every RECONCILE request
\* is answered with a success response.
C19_ReconcileAccepted ==
    \A i \in Handlers : h[i].op = "RECONCILE" /\ h[i].pc = "done" => h[i].ok

\* The starting daemon has refused to start and left the socket as it was.
Refused == run.pc = "refused" /\ sockFile \in {"daemon", "foreign"}

\* The starting daemon goes on: the socket file is unlinked, then its own.
Proceeds ==
    /\ run.pc \in {"remove", "listen", "serving"}
    /\ run.pc = "listen" => sockFile = "none"
    /\ run.pc = "serving" => sockFile = "ours"

\* C20 as stated: a starting daemon that finds a socket file and gets a
\* response to its STATUS probe refuses to start and leaves the socket; one
\* that gets none unlinks the socket and listens.
C20_RefusesOnResponse ==
    /\ run.saw \in {"unparsable", "response"} => Refused
    /\ run.saw \in {"no-dial", "no-answer"} => Proceeds

\* C20: a starting daemon that finds a socket file refuses to start, leaving
\* the socket, when its STATUS probe gets a response that parses as one of
\* the protocol; with no connection, no answer or an answer that does not
\* parse it unlinks the socket and listens.
C20_RefusesOnProtocolResponse ==
    /\ run.saw = "response" => Refused
    /\ run.saw \in {"no-dial", "no-answer", "unparsable"} => Proceeds

\* A daemon listens where a stale socket was and has discovered a forward.
C20_Witness ==
    /\ run.saw = "no-dial" /\ run.pc = "serving" /\ sockFile = "ours"
    /\ forwards # <<>>

\* Handler i takes up a FORWARD or UNFORWARD request in this step.
TakesRequest(i) ==
    Free(i) /\ h'[i] # h[i] /\ h'[i].op \in {"FORWARD", "UNFORWARD"}

\* Auto-discovery takes a step.
DiscoveryStep ==
    h[Maint].op = "DISCOVER" /\ h[Maint].pc \in {"reg_next", "reg_store"}
        /\ h'[Maint] # h[Maint] /\ h'[Maint].op = "DISCOVER"

\* C21: the daemon takes up no RPC while auto-discovery runs, and a step of
\* auto-discovery runs no ssh command: the masters' forwards stay as they
\* are, and the registry only grows.
C21_DiscoveryBeforeRPCs ==
    [][/\ \A i \in Clients : TakesRequest(i) => Serving
       /\ DiscoveryStep
            => /\ sshFwds' = sshFwds /\ staticActive' = staticActive
               /\ \A k \in DOMAIN forwards : k \in DOMAIN forwards' /\ forwards'[k] = forwards[k]]_vars

\* A request is being handled after auto-discovery has registered a forward.
C21_Witness ==
    /\ h[Maint].op = "DISCOVER" /\ h[Maint].pc = "done"
    /\ forwards # <<>>
    /\ h[1].pc = "add_check"

\* Entry f is one that the running cleanup is to remove.
CleanupTarget(f) ==
    \/ h[Maint].op = "CLEANUP_CONN" /\ f.ConnectionInfo = h[Maint].conn
    \/ h[Maint].op = "CLEANUP_SOCK" /\ f.SocketPath = h[Maint].sock

\* The cleanup returns in this step.
CleanupEnds ==
    h[Maint].pc = "cl_next" /\ h[Maint].work = {} /\ h'[Maint].pc = "done"

\* C22: while a cleanup by connection or by control socket runs, the entries
\* of every other connection (socket) stay as they are and nothing is added;
\* when it returns, no entry of its connection (socket) is left.
C22_CleanupFrame ==
    [][h[Maint].op \in {"CLEANUP_CONN", "CLEANUP_SOCK"} /\ h[Maint].pc # "done"
       => /\ DOMAIN forwards' \subseteq DOMAIN forwards
          /\ \A k \in DOMAIN forwards :
                ~CleanupTarget(forwards[k]) => k \in DOMAIN forwards' /\ forwards'[k] = forwards[k]
          /\ CleanupEnds => \A k \in DOMAIN forwards : ~CleanupTarget(forwards[k])]_vars

\* A cleanup for vm1 has removed its two forwards and kept the one of vm2.
C22_Witness ==
    /\ h[Maint].op = "CLEANUP_CONN" /\ h[Maint].conn = "vm1"
    /\ h[Maint].pc = "cl_next" /\ h[Maint].work = {}
    /\ DOMAIN forwards = {Key("vm2", "localhost", 3000)}
    /\ now = 0 /\ h[Maint].cancelOk

\* C23: when wrap exits, it has sent an UNFORWARD for exactly the ports whose
\* FORWARD succeeded, and for none that was forwarded for its connection
\* before it started.
C23_UnforwardsOwnForwards ==
    w.pc = "exited" => w.sentUnf = w.okFwd /\ w.sentUnf \cap w.before = {}

\* C30: once wrap has passed a signal on to its child, the child ends, killed
\* if need be, and wrap cleans up and exits.
C30_SignalledWrapExits ==
    w.signalled ~> (w.child = "exited" /\ w.pc = "exited")

\* C24: no observer waits in a send on its event channel, at its start as
\* little as later: an event that finds the channel full is dropped.
C24_ObserverNeverBlocks == ~Blocked

\* C25: when the Start of either observer has returned, one OPENED event has
\* been put on the event stream for every port that listened when it started.
C25_StartBurst ==
    o.pc = "running" => \A p \in o.initial : o.burst[p] = 1

\* The live control socket of connection c, after this step.
LiveAfter(c, path) == alive'[c] /\ path = SocketPathOf(c, gen'[c])

\* C26 as stated: when a FORWARD is answered with success, the control socket
\* recorded in the registry entry of its identity is live at that moment.
C26_ControlSocketLiveAtAnswer ==
    [][\A i \in Clients :
          (h'[i] # h[i] /\ h'[i].op = "FORWARD" /\ h'[i].pc = "done" /\ h'[i].ok)
          => /\ h'[i].key \in DOMAIN forwards'
             /\ LiveAfter(h'[i].conn, forwards'[h'[i].key].SocketPath)]_vars

\* C26, amended: a FORWARD that names no socket path goes on to AddForward
\* only with the path of a control socket that is live when the request
\* arrives; the handler keeps that path, and the entry it stores records it.
\* A FORWARD answered from an existing entry leaves the entry as it is.
C26_ControlSocketAsResolved ==
    [][\A i \in Clients :
          /\ (Free(i) /\ h'[i].op = "FORWARD" /\ h'[i].pc = "add_check"
                /\ h'[i].sock \notin NamedSockets)
             => alive[h'[i].conn] /\ h'[i].sock = SocketPathOf(h'[i].conn, gen[h'[i].conn])
          /\ (h[i].op = "FORWARD" /\ h[i].pc \in {"add_check", "add_exec"}
                /\ h'[i].pc \in {"add_exec", "add_store"})
             => h'[i].sock = h[i].sock
          /\ (h[i].pc = "add_store" /\ h'[i].pc = "done")
             => /\ h'[i].ok
                /\ h[i].key \in DOMAIN forwards'
                /\ forwards'[h[i].key].SocketPath = h[i].sock
          /\ (h[i].pc = "add_check" /\ h'[i].pc = "done")
             => /\ h'[i].ok
                /\ h[i].key \in DOMAIN forwards
                /\ forwards' = forwards]_vars

\* A FORWARD after a reconnect has been answered with success; its entry
\* records the control socket of the reconnected master, which has exited since.
C26_Witness ==
    /\ h[1].op = "FORWARD" /\ h[1].pc = "done" /\ h[1].ok
    /\ h[1].key = Key("vm1", "localhost", 3000)
    /\ h[1].key \in DOMAIN forwards
    /\ forwards[h[1].key].SocketPath = SocketPathOf("vm1", 1)
    /\ ~alive["vm1"]

\* SessionMonitor.mutex is held: an operation of the supervisor is under way.
MutexHeld == s.pc \notin {"idle", "exited"}

\* The daemon is handling an RPC of the supervisor.
RpcInFlight == h[0].pc \notin {"idle", "done"}

\* C27 as stated: the supervisor does not hold its mutex while one of its
\* RPCs is in flight.
C27_NoRpcUnderMutex == ~(MutexHeld /\ RpcInFlight)

\* C27, amended: an operation of the supervisor holds the mutex from its start
\* to its end, the RPC included: while an RPC is in flight the mutex is held
\* by the operation that waits for it, and neither map changes.
C27_RpcUnderMutex ==
    [][/\ RpcInFlight => MutexHeld /\ s.sent /\ s.pc \in {"ev_fwd", "gc_rpc", "cl_rpc"}
       /\ RpcInFlight' => MutexHeld'
       /\ RpcInFlight => /\ activeForwards' = activeForwards
                         /\ pendingRemovals' = pendingRemovals]_vars

\* The collector waits for the answer to an UNFORWARD while an OPENED event
\* waits for the mutex.
C27_Witness ==
    /\ s.pc = "gc_rpc" /\ RpcInFlight
    /\ events # <<>> /\ Head(events).Type = "opened"

\* C28: a shutdown of the daemon comes to its end: the handlers in flight are
\* waited for no longer than a bounded time, and the socket file is removed.
C28_ShutdownTerminates ==
    (run.pc = "draining") ~> (run.pc = "stopped" /\ sockFile = "none")

\* requestForward returns in this step from a FORWARD that failed: the request
\* could not be sent, or the answer is not a success.
ForwardFails == s.pc = "ev_fwd" /\ Returned /\ ~Succeeded /\ s'.pc = "idle"

\* C29: when a FORWARD of the event handler for port p fails, p is not in the
\* forwarded map afterwards, and an OPENED for p that passes the policy then
\* sends a new FORWARD.
C29_FailedForwardUntracked ==
    [][ForwardFails
       => /\ s.port \notin activeForwards'
          /\ ShouldRequest(TRUE, TRUE, s.port \in DOMAIN pendingRemovals',
                           s.port \in activeForwards')]_vars

\* ---------------------------------------------------- the polling observer
\* processPendingPorts sends PortOpened for port p: p goes from pending to known.
SendsOpened(p) == ProcessPendingPorts /\ p \in Confirmed

\* checkPorts finds that the known port p has gone.
DetectsClosed(p) == CheckPorts /\ p \in sysmon.knownPorts /\ vmSockets[p] = 0

\* C31: in the polling observer PortOpened is sent for a port only when a poll
\* has seen the bind that the port has now and a full debounce time has gone
\* by since that poll, so a bind that ends within its debounce time yields no
\* PortOpened and a later bind of the port waits for its own debounce time; a
\* known port that has gone leaves knownPorts, with its PortClosed sent, in the
\* poll that finds it gone.
C31_DebouncePerBind ==
    [][\A p \in VmPorts :
          /\ SendsOpened(p) => sysmon.seen[p] # -1 /\ now - sysmon.seen[p] >= DebounceTime
          /\ DetectsClosed(p) => p \notin sysmon'.knownPorts]_vars

\* C37: the polling observer never sends on its event channel after
\* monitorLoop has closed it, however the close and the pass of
\* processPendingPorts interleave.
C37_NoSendOnClosedChannel == ~sysmon.sentClosed

\* ------------------------------------------------- the sweep, entry by entry
\* The key of an entry.
KeyOf(f) == Key(f.ConnectionInfo, f.Host, f.RemotePort)

\* The entries that the running sweep of the daemon found without a listener.
StaleKeys == {KeyOf(f) : f \in h[Maint].staleForwards \cup h'[Maint].staleForwards}

\* C32: a sweep leaves every entry whose local port listened at its snapshot
\* as it is; when it returns, a stale entry is gone only if its control socket
\* could not be resolved, has the resolved socket and the time of the update
\* if its ssh -O forward succeeded, and is as it was if that command failed.
C32_SweepEntryByEntry ==
    [][/\ \A k \in DOMAIN forwards \ StaleKeys :
             k \in DOMAIN forwards' /\ forwards'[k] = forwards[k]
       /\ DOMAIN forwards' \subseteq DOMAIN forwards
       /\ SweepEnds(Maint) =>
             \A f \in h[Maint].staleForwards :
                LET c == f.ConnectionInfo
                IN  IF KeyOf(f) \notin DOMAIN forwards'
                    THEN FindControlSocket(c) = ""
                    ELSE IF f.LocalPort \in sshFwds'[c]
                    THEN forwards'[KeyOf(f)] = [f EXCEPT !.SocketPath = FindControlSocket(c),
                                                         !.CreatedAt = now]
                    ELSE forwards'[KeyOf(f)] = f]_vars

\* A sweep has returned with an entry that it refreshed, a stale entry that it
\* left as it was and an entry whose port listened all along.
C32_Witness ==
    /\ h[Maint].op = "RECONCILE" /\ h[Maint].pc = "done"
    /\ \E k \in DOMAIN forwards :
          /\ forwards[k].CreatedAt = now
          /\ forwards[k].SocketPath = SocketPathOf(forwards[k].ConnectionInfo, 1)
    /\ \E k \in DOMAIN forwards :
          forwards[k].CreatedAt = 0 /\ ~Listening(forwards[k].LocalPort)
    /\ \E k \in DOMAIN forwards :
          /\ forwards[k].CreatedAt = 0 /\ Listening(forwards[k].LocalPort)
          /\ forwards[k].LocalPort \notin sshFwds[forwards[k].ConnectionInfo]

\* ------------------------------------------------------- a FORWARD that fails
\* Handler i takes a step of a FORWARD request.
ForwardStep(i) == h'[i] # h[i] /\ h'[i].op = "FORWARD"

\* Handler i answers its FORWARD request with an error in this step.
AnswersError(i) == ForwardStep(i) /\ h'[i].pc = "done" /\ ~h'[i].ok

\* C33: a FORWARD whose control socket cannot be resolved, or whose ssh -O
\* forward fails, is answered with an error, and no step of a FORWARD that is
\* answered with an error touches the registry: the only step of a FORWARD
\* that changes the registry is the one that answers success.
C33_FailedForwardInsertsNothing ==
    [][\A i \in Handlers :
          /\ AnswersError(i) => forwards' = forwards
          /\ (ForwardStep(i) /\ forwards' # forwards) => (h'[i].pc = "done" /\ h'[i].ok)
          /\ (ForwardStep(i) /\ Free(i) /\ FindControlSocket(h'[i].conn) = "")
             => (AnswersError(i) /\ h'[i].err = "failed to find SSH socket")
          /\ (ForwardStep(i) /\ h[i].pc = "add_exec" /\ h'[i].pc # "add_store")
             => (AnswersError(i) /\ h'[i].err = "failed to forward port")]_vars

\* One FORWARD has failed in its ssh command and one for want of a control
\* socket; neither identity is in the registry, which holds another entry.
C33_Witness ==
    /\ \E i \in Clients :
          /\ h[i].op = "FORWARD" /\ h[i].pc = "done" /\ ~h[i].ok
          /\ h[i].err = "failed to forward port"
          /\ h[i].key \notin DOMAIN forwards
    /\ \E i \in Clients :
          /\ h[i].op = "FORWARD" /\ h[i].pc = "done" /\ ~h[i].ok
          /\ h[i].err = "failed to find SSH socket"
          /\ h[i].key \notin DOMAIN forwards
    /\ forwards # <<>>

\* ------------------------------------------- FORWARDs of one identity at once
\* The ssh -O forward of handler i succeeds in this step.
Executes(i) == h[i].pc = "add_exec" /\ h'[i].pc = "add_store"

\* Handler i inserts its entry in this step.
Stores(i) == h[i].pc = "add_store" /\ h'[i].pc = "done"

\* C34: among FORWARD requests that run at once for one identity that is not
\* registered, ssh -O forward is run by one only: no handler runs it for an
\* identity that is registered by then or for which another handler has run it
\* and is about to insert, and the insert finds no entry of another command,
\* so the entry's local port is that of the one command that ran.
C34_OneCommandPerIdentity ==
    [][\A i \in Handlers :
          /\ Executes(i) =>
                /\ h[i].key \notin DOMAIN forwards
                /\ \A j \in Handlers \ {i} : ~(h[j].pc = "add_store" /\ h[j].key = h[i].key)
          /\ Stores(i) =>
                /\ h[i].key \notin DOMAIN forwards
                /\ forwards'[h[i].key].LocalPort = h[i].lport]_vars

\* C35: the removal phase of a sweep deletes only what the sweep snapshotted:
\* every entry that it deletes is, as it stands in the registry, one of the
\* stale entries of the snapshot, and not an entry that a FORWARD has put under
\* the same identity since.
C35_SweepDeletesOnlySnapshot ==
    [][SweepEnds(Maint)
       => \A k \in DOMAIN forwards \ DOMAIN forwards' :
             \E f \in h[Maint].staleForwards : KeyOf(f) = k /\ forwards[k] = f]_vars

\* ------------------------------------------- what the supervisor has created
\* The daemon holds a forward of the session for port p; only the supervisor
\* asks for such forwards.
CreatedForSession(p) == Key(Session, "localhost", p) \in DOMAIN forwards

\* C36: a forward that the daemon has created at the supervisor's request, be
\* it sent by the event handler or by the Monitor's Reconcile, is in the
\* supervisor's map of active forwards, so the PortClosed of its port, handled
\* when the port no longer listens, marks it for the collector's UNFORWARD.
C36_ClosedMarksCreatedForward ==
    [][\A p \in VmPorts :
          (Handles("closed", p) /\ vmSockets[p] = 0 /\ CreatedForSession(p))
          => (p \in activeForwards /\ p \in DOMAIN pendingRemovals')]_vars

\* ------------------------------------------------- the collector, port by port
\* The collector is done with port p in this step: its UNFORWARD has returned,
\* or the port was marked without being tracked.
CollectorProcesses(p) ==
    \/ s.pc = "gc_rpc" /\ s.port = p /\ s'.pc # "gc_rpc"
    \/ s.pc = "gc" /\ p \in s.todo /\ s'.pc # "gc_rpc" /\ (s'.pc = "gc" => p \notin s'.todo)

\* C38: once the collector is done with a port whose grace period is over,
\* the port is in neither map, whatever its UNFORWARD was answered; and the
\* collector sends UNFORWARD only for a port that is marked and tracked, so an
\* UNFORWARD that failed is not sent again, neither later in the pass nor in a
\* later pass.
C38_CollectedWhateverTheAnswer ==
    [][\A p \in VmPorts :
          /\ CollectorProcesses(p) =>
                /\ p \notin activeForwards'
                /\ p \notin DOMAIN pendingRemovals'
                /\ s'.pc = "gc" => p \notin s'.todo
          /\ CollectorUnforwards(p) =>
                p \in activeForwards /\ p \in DOMAIN pendingRemovals]_vars

\* The collector's UNFORWARD of port 3000 was answered with an error and the
\* collector is through: the port is in neither map.
C38_Witness ==
    /\ ~cancelled /\ s.pc = "idle"
    /\ h[0].op = "UNFORWARD" /\ h[0].pc = "done" /\ ~h[0].ok
    /\ h[0].key = Key(Session, "localhost", 3000)
    /\ 3000 \notin activeForwards /\ 3000 \notin DOMAIN pendingRemovals

\* C39: in every state of the supervisor the ports marked for removal are
\* among the tracked ones.
C39_PendingAreTracked == DOMAIN pendingRemovals \subseteq activeForwards

\* A tracked port is marked, its grace period is over and the collector waits
\* for the answer to its UNFORWARD; the port's next PortOpened is in the channel.
C39_Witness ==
    /\ s.pc = "gc_rpc"
    /\ s.port \in DOMAIN pendingRemovals
    /\ s.port \in activeForwards
    /\ events # <<>> /\ Head(events).Type = "opened" /\ Head(events).Port = s.port

\* C40: in every execution of wrap, the timeout path with Stop called while
\* wrap's goroutine is blocked in Wait included, the process manager calls
\* cmd.Wait at most once and executes close(m.done) at most once.
C40_WaitsAndClosesOnce == w.waits <= 1 /\ w.closes <= 1

====
